---- MODULE Spec2Model ----
(***************************************************************************)
(* Read-only ext4 reader of go-diskfs (filesystem/ext4).                   *)
(*                                                                         *)
(* The device is a random-access byte store.  Fixed-layout metadata        *)
(* (superblock, group-descriptor table, inodes, extent nodes) is kept as   *)
(* decoded cells at the device offset where the structure starts: a read   *)
(* at that offset yields the structure, a read anywhere else yields bytes  *)
(* that do not carry the structure's signature.  Directory bodies and      *)
(* file contents are kept as raw bytes and parsed byte by byte, as the     *)
(* code does.                                                              *)
(***************************************************************************)
EXTENDS Integers, Sequences, FiniteSets, TLC

VARIABLES device, writes, fs, file, hist, res, mutex, calls

vars == <<device, writes, fs, file, hist, res, mutex, calls>>

----------------------------------------------------------------------------
(* Bounds of the model *)

MaxBuf == 2
MaxSeek == 1
MaxOffset == 4

----------------------------------------------------------------------------
(* Program constants *)

SectorSize512 == 512
BootSectorSize == 2 * SectorSize512
SuperblockSize == 2 * SectorSize512
Ext4MinSize == 5 * SectorSize512
superblockSignature == 61267
crc32c == 1
checkSumOffSet == 30
minDirEntryLength == 12
tombstoneFileType == 222
rootInodeNumber == 2
defaultGroupDescriptorSize == 32

fileTypeUnknown == 0
fileTypeFifo == 4096
fileTypeCharacterDevice == 8192
fileTypeDirectory == 16384
fileTypeBlockDevice == 24576
fileTypeRegularFile == 32768
fileTypeSymbolicLink == 40960
fileTypeSocket == 49152

filetypeMap ==
  <<fileTypeUnknown, fileTypeRegularFile, fileTypeDirectory,
    fileTypeCharacterDevice, fileTypeBlockDevice, fileTypeFifo,
    fileTypeSocket, fileTypeSymbolicLink>>

O_RDONLY == 0
O_WRONLY == 1
O_RDWR == 2
O_CREATE == 64
O_EXCL == 128
O_TRUNC == 512
O_APPEND == 1024

SeekStart == 0
SeekCurrent == 1
SeekEnd == 2

(* Error values, named by the message the code builds *)
NoErr == "nil"
ErrPanic == "panic"
ErrEOF == "EOF"
ErrSectorSize == "sectorsize for ext4 must be either 512 bytes or 0"
ErrTooSmall == "requested size is smaller than minimum allowed ext4 size"
ErrBootRead == "could not read boot sector bytes from file"
ErrSuperblockRead == "could not read superblock bytes from file"
ErrSuperblock == "could not interpret superblock data"
ErrGDTRead == "could not read Group Descriptor Table bytes from file"
ErrGDT == "could not interpret Group Descriptor Table data"
ErrWriteNotSupported == "write support not implemented"
ErrNotImplemented == "Not implemented"
ErrIsADirectory == "cannot open directory as file"
ErrNotFound == "target file does not exist and was not asked to create"
ErrReadDirEntries == "could not read directory entries"
ErrReadInode == "could not read inode number"
ErrReadingDirectory == "error reading directory"
ErrInvalidSeek == "cannot set offset before start of file"
ErrFileBytes == "failed to read bytes for extent"

----------------------------------------------------------------------------
(* Integer and byte helpers *)

Min(a, b) == IF a < b THEN a ELSE b

RECURSIVE BitAnd(_, _)
BitAnd(a, b) ==
  IF a = 0 \/ b = 0 THEN 0
  ELSE (a % 2) * (b % 2) + 2 * BitAnd(a \div 2, b \div 2)

(* binary.LittleEndian over the 0-based byte offset i of a byte sequence *)
Uint16(b, i) == b[i + 1] + 256 * b[i + 2]
Uint32(b, i) == b[i + 1] + 256 * b[i + 2] + 65536 * b[i + 3] + 16777216 * b[i + 4]

Zeros(n) == [k \in 1..n |-> 0]

(* v bound to a name: F is what follows the assignment in the code *)
With(v, F(_)) == F(v)

(* b[lo:hi] of Go, 0-based, hi exclusive *)
Slice(b, lo, hi) == SubSeq(b, lo + 1, hi)

----------------------------------------------------------------------------
(* The device: its size in bytes and its content.  cells maps the device   *)
(* offset where something starts to what is stored there.                  *)

(* util.File.ReadAt(buf, off) with len(buf) = n: the bytes lie inside the  *)
(* device or the read comes back short, with an error unless the device    *)
(* is a quiet one.                                                         *)
ReadAt(dev, off, n) ==
  IF off < 0 THEN [n |-> 0, err |-> TRUE, off |-> off, len |-> n]
  ELSE IF n = 0 \/ off + n <= dev.size THEN [n |-> n, err |-> FALSE, off |-> off, len |-> n]
  ELSE [n |-> IF off >= dev.size THEN 0 ELSE dev.size - off,
        err |-> ~dev.quiet, off |-> off, len |-> n]

(* what a read logs: where and how much *)
IO(r) == [off |-> r.off, len |-> r.len]

(* the structure stored at a device offset, if one of that kind starts     *)
(* there; otherwise the bytes there do not decode as one                   *)
RawCell == [kind |-> "raw"]

CellAt(dev, off, kind) ==
  IF off \in DOMAIN dev.cells /\ dev.cells[off].kind = kind
  THEN dev.cells[off]
  ELSE RawCell

(* one byte of the device; a byte nothing was stored at is zero *)
DevByte(dev, p) ==
  LET S == {o \in DOMAIN dev.cells :
              /\ dev.cells[o].kind = "data"
              /\ o <= p
              /\ p < o + Len(dev.cells[o].bytes)}
  IN IF S = {} THEN 0
     ELSE LET o == CHOOSE x \in S : TRUE
          IN dev.cells[o].bytes[p - o + 1]

DevBytes(dev, off, n) == [k \in 1..n |-> DevByte(dev, off + k - 1)]

----------------------------------------------------------------------------
(* Images the device may hold (what mkfs and a few file operations leave   *)
(* behind), placed at a byte offset inside the device.                     *)

NameDot == <<46>>
NameDotDot == <<46, 46>>
NameSlash == <<47>>
NameF == <<102>>
NameD == <<100>>
NameG == <<103>>
NameE == <<101>>
NameX == <<120>>

(* one directory record: inode, rec_len, name_len, file type, name, pad *)
DirRec(ino, recLen, ft, name) ==
  <<ino % 256, (ino \div 256) % 256, 0, 0,
    recLen % 256, recLen \div 256, Len(name), ft>>
  \o name \o Zeros(recLen - 8 - Len(name))

(* file-type byte as stored: 0 when the image does not record file types *)
FtByte(withFt, code) == IF withFt THEN code ELSE 0

RootBody(withFt, old) ==
  DirRec(2, 12, FtByte(withFt, 2), NameDot)
  \o DirRec(2, 12, FtByte(withFt, 2), NameDotDot)
  \o DirRec(3, 12, FtByte(withFt, 1), NameF)
  \o DirRec(0, 12, 0, NameX)
  \o DirRec(4, 12, FtByte(withFt, 2), NameD)
  \o (IF old THEN DirRec(0, 12, 0, NameE) ELSE DirRec(6, 12, FtByte(withFt, 1), NameE))

SubdirBody(withFt) ==
  DirRec(4, 12, FtByte(withFt, 2), NameDot)
  \o DirRec(2, 12, FtByte(withFt, 2), NameDotDot)
  \o DirRec(5, 12, FtByte(withFt, 1), NameG)
  \o (IF withFt THEN DirRec(7, 12, 222, <<>>) ELSE DirRec(0, 12, 0, <<>>))

ContentF == <<104, 101, 121>>
ContentG == <<103, 111>>

LeafTree(exts) ==
  [magic |-> 62218, entries |-> Len(exts), max |-> 4, depth |-> 0,
   extents |-> exts, children |-> <<>>]

InodeCell(mode, size, mtime, tree) ==
  [kind |-> "inode", mode |-> mode, size |-> size,
   modificationTimeSeconds |-> mtime, modificationTimeNanoseconds |-> 0,
   generation |-> 0, checksum |-> 0, computedChecksum |-> 0,
   extentTree |-> tree]

Ext(fileBlock, count, startingBlock) ==
  [fileBlock |-> fileBlock, count |-> count, startingBlock |-> startingBlock]

SuperblockCell(withFt) ==
  [kind |-> "superblock",
   length |-> 1024,
   magic |-> 61267,
   checksumType |-> 1,
   features |-> (IF withFt THEN {"directoryEntriesRecordFileType"} ELSE {})
                  \cup {"extents"},
   blockCount |-> 18,
   firstDataBlock |-> 1,
   logBlockSize |-> 0,
   blocksPerGroup |-> 8,
   inodesPerGroup |-> 4,
   inodeSize |-> 128,
   groupDescriptorSize |-> 0,
   checksumSeed |-> 0,
   checksum |-> 0,
   computedChecksum |-> 0]

GroupDescriptorCell(inodeTable) ==
  [inodeTableLocation |-> inodeTable, checksum |-> 0,
   crc32cChecksum |-> 0, crc16Checksum |-> 0]

(* the image's structures by image-relative byte address; an older copy   *)
(* of the filesystem lacks the file e and holds other file bytes           *)
ContentFOld == <<72, 69, 89>>
ContentGOld == <<71, 79>>

ImageCells(withFt, old) ==
  (1024 :> SuperblockCell(withFt))
  @@ (2048 :> [kind |-> "gdt",
               descriptors |-> <<GroupDescriptorCell(3), GroupDescriptorCell(9),
                                 GroupDescriptorCell(17)>>])
  @@ (3 * 1024 + 128 :>
        InodeCell(16877, Len(RootBody(withFt, old)), 1002, LeafTree(<<Ext(0, 1, 4)>>)))
  @@ (3 * 1024 + 256 :> InodeCell(33188, Len(ContentF), 1003, LeafTree(<<Ext(0, 1, 5)>>)))
  @@ (3 * 1024 + 384 :>
        InodeCell(16877, Len(SubdirBody(withFt)), 1004, LeafTree(<<Ext(0, 1, 6)>>)))
  @@ (9 * 1024 :> InodeCell(33188, Len(ContentG), 1005, LeafTree(<<Ext(0, 1, 7)>>)))
  @@ (9 * 1024 + 128 :> InodeCell(33188, 0, 1006, LeafTree(<<>>)))
  @@ (4 * 1024 :> [kind |-> "data", bytes |-> RootBody(withFt, old)])
  @@ (5 * 1024 :> [kind |-> "data", bytes |-> IF old THEN ContentFOld ELSE ContentF])
  @@ (6 * 1024 :> [kind |-> "data", bytes |-> SubdirBody(withFt)])
  @@ (7 * 1024 :> [kind |-> "data", bytes |-> IF old THEN ContentGOld ELSE ContentG])

Shifted(cells, by) == [o \in {a + by : a \in DOMAIN cells} |-> cells[o - by]]

(* a device holding one image of 18 blocks at imgStart; the bytes before   *)
(* it belong to something else, here an older copy of the filesystem       *)
Image(imgStart, withFt, withOld) ==
  [size |-> imgStart + 18 * 1024,
   quiet |-> FALSE,
   cells |-> IF withOld /\ imgStart > 0
             THEN Shifted(ImageCells(withFt, FALSE), imgStart)
                  @@ ImageCells(withFt, TRUE)
             ELSE Shifted(ImageCells(withFt, FALSE), imgStart)]

(* a device that ends early: nothing can be read at or after size *)
Truncated(dev, size) == [dev EXCEPT !.size = size]

(* a device whose ReadAt hands back the bytes it has and no error when it  *)
(* ends inside the range asked for                                         *)
Quiet(dev) == [dev EXCEPT !.quiet = TRUE]

(* the structure stored at off replaced by F of it *)
Patched(dev, off, F(_)) ==
  [dev EXCEPT !.cells = [o \in DOMAIN dev.cells |->
                           IF o = off THEN F(dev.cells[o]) ELSE dev.cells[o]]]

(* an image made with metadata checksums: the superblock and the group     *)
(* descriptors carry the checksums computed over them, the inodes of f and *)
(* d carry stale ones                                                      *)
StaleChecksum(c) == [c EXCEPT !.checksum = c.computedChecksum + 7]

WithMetadataChecksums(c) == [c EXCEPT !.features = @ \cup {"metadataChecksums"}]
WithGdtChecksum(c) == [c EXCEPT !.features = @ \cup {"gdtChecksum"}]

MetaImage ==
  Patched(Patched(Patched(Image(0, TRUE, FALSE),
                          1024, WithMetadataChecksums),
                  3 * 1024 + 256, StaleChecksum),
          3 * 1024 + 384, StaleChecksum)

(* the same image with a stale checksum in the superblock, or in the k-th  *)
(* group descriptor                                                        *)
StaleSecondDescriptor(c) == [c EXCEPT !.descriptors[2].checksum = 5]
StaleLastDescriptor(c) == [c EXCEPT !.descriptors[3].checksum = 5]

BadSuperblockImage == Patched(MetaImage, 1024, StaleChecksum)
BadDescriptorImage == Patched(MetaImage, 2048, StaleSecondDescriptor)

(* an image made with the older group-descriptor checksums, the last       *)
(* descriptor stale                                                        *)
BadGdtChecksumImage ==
  Patched(Patched(Image(0, TRUE, FALSE), 1024, WithGdtChecksum),
          2048, StaleLastDescriptor)

(* an internal node of an extent tree, and one of its index entries *)
IndexTree(depth, children) ==
  [magic |-> 62218, entries |-> Len(children), max |-> 4, depth |-> depth,
   extents |-> <<>>, children |-> children]

Idx(eiBlock, eiLeaf) == [eiBlock |-> eiBlock, eiLeaf |-> eiLeaf]

(* a tree node stored in a block of its own *)
Node(tree) == [kind |-> "extent"] @@ tree

(* files whose extents hang off index nodes, by image-relative address:    *)
(* inode 5 has two leaves stored out of file order and 1026 bytes, 6 has   *)
(* more extents than bytes, 7 more bytes than extents, 8 a child of the    *)
(* wrong depth between two good ones, 9 two levels of index nodes, 10 a    *)
(* wrong depth one level down, 11 a child block that holds no tree node    *)
TreeCells ==
  (3 * 1024 :> InodeCell(33188, 0, 1001, IndexTree(1, <<>>)))
  @@ (9 * 1024 :> InodeCell(33188, 1026, 1005, IndexTree(1, <<Idx(1, 11), Idx(0, 10)>>)))
  @@ (9 * 1024 + 128 :> InodeCell(33188, 3, 1006, LeafTree(<<Ext(0, 1, 5), Ext(1, 1, 7)>>)))
  @@ (9 * 1024 + 256 :> InodeCell(33188, 1029, 1007, LeafTree(<<Ext(0, 1, 5)>>)))
  @@ (9 * 1024 + 384 :>
        InodeCell(33188, 3, 1008, IndexTree(1, <<Idx(0, 10), Idx(1, 12), Idx(2, 11)>>)))
  @@ (17 * 1024 :> InodeCell(33188, 1026, 1009, IndexTree(2, <<Idx(0, 13)>>)))
  @@ (17 * 1024 + 128 :>
        InodeCell(33188, 3, 1010, IndexTree(2, <<Idx(0, 13), Idx(2, 15)>>)))
  @@ (17 * 1024 + 256 :> InodeCell(33188, 3, 1011, IndexTree(1, <<Idx(0, 14)>>)))
  @@ (17 * 1024 + 384 :> InodeCell(33188, 0, 1012, LeafTree(<<Ext(0, 1, 5)>>)))
  @@ (10 * 1024 :> Node(LeafTree(<<Ext(0, 1, 5)>>)))
  @@ (11 * 1024 :> Node(LeafTree(<<Ext(1, 1, 7)>>)))
  @@ (12 * 1024 :> Node(IndexTree(1, <<Idx(0, 10)>>)))
  @@ (13 * 1024 :> Node(IndexTree(1, <<Idx(1, 11), Idx(0, 10)>>)))
  @@ (15 * 1024 :> Node(IndexTree(1, <<Idx(0, 12)>>)))

TreeImage(imgStart) ==
  [size |-> imgStart + 18 * 1024,
   quiet |-> FALSE,
   cells |-> Shifted(TreeCells, imgStart) @@ Image(imgStart, TRUE, FALSE).cells]

(* where a device may end: inside the boot sector, the superblock, the     *)
(* group descriptors, the inode of the root, the block of f, the inode of  *)
(* a file with index nodes, and the block of a tree node                   *)
ShortSizes ==
  {500, 1500, 2048 + 50, 3 * 1024 + 200, 5 * 1024 + 2, 9 * 1024 + 50, 11 * 1024 + 100}

(* the image with index nodes at 0 and at 32768, and on devices that end   *)
(* inside it, with and without an error from the read that meets the end   *)
TreeDevices ==
  {TreeImage(0), TreeImage(32768)}
  \cup {Truncated(TreeImage(0), size) : size \in ShortSizes}
  \cup {Quiet(Truncated(TreeImage(0), size)) : size \in ShortSizes}

ImageStarts == {0, 32768}

(* an image at 0 with and without file types in its directory records, an  *)
(* image at 32768 behind an older copy, and an image at 0 on a device that *)
(* ends two bytes into the block holding the bytes of f                    *)
Devices ==
  {Image(0, w, FALSE) : w \in BOOLEAN}
  \cup {Image(32768, TRUE, TRUE)}
  \cup {Truncated(Image(0, TRUE, FALSE), 5 * 1024 + 2)}
  \cup {MetaImage, BadSuperblockImage, BadDescriptorImage, BadGdtChecksumImage}

(* util.File.WriteAt: the bytes are stored at the offset *)
WriteAt(dev, w) ==
  [dev EXCEPT !.cells = (w.off :> [kind |-> "data", bytes |-> w.bytes]) @@ dev.cells]

RECURSIVE ApplyWrites(_, _)
ApplyWrites(dev, ws) ==
  IF ws = <<>> THEN dev ELSE ApplyWrites(WriteAt(dev, Head(ws)), Tail(ws))

----------------------------------------------------------------------------
(* Superblock and group descriptors *)

RECURSIVE Exp2(_)
Exp2(n) == IF n = 0 THEN 1 ELSE 2 * Exp2(n - 1)

(* superblockFromBytes: b is the buffer read, len bytes holding cell *)
superblockFromBytes(b) ==
  LET c == b.cell IN
  IF b.len # SuperblockSize THEN [err |-> "length", sb |-> <<>>]
  ELSE IF c.kind # "superblock" \/ c.magic # superblockSignature
  THEN [err |-> "signature", sb |-> <<>>]
  ELSE IF c.checksumType # crc32c THEN [err |-> "checksum type", sb |-> <<>>]
  ELSE IF "metadataChecksums" \in c.features /\ c.computedChecksum # c.checksum
  THEN [err |-> "checksum", sb |-> <<>>]
  ELSE [err |-> NoErr,
        sb |-> [features |-> c.features,
                blockCount |-> c.blockCount,
                firstDataBlock |-> c.firstDataBlock,
                blockSize |-> Exp2(10 + c.logBlockSize),
                blocksPerGroup |-> c.blocksPerGroup,
                inodesPerGroup |-> c.inodesPerGroup,
                inodeSize |-> c.inodeSize,
                groupDescriptorSize |-> c.groupDescriptorSize,
                checksumType |-> c.checksumType,
                checksumSeed |-> c.checksumSeed]]

(* block-group count = ceil((blockCount - firstDataBlock) / blocksPerGroup) *)
blockGroupCount(sb) ==
  (sb.blockCount - sb.firstDataBlock + sb.blocksPerGroup - 1) \div sb.blocksPerGroup

(* 32 on 32-bit images, else the stored size *)
getGroupDescriptorSize(sb) ==
  IF "fs64Bit" \in sb.features THEN sb.groupDescriptorSize
  ELSE defaultGroupDescriptorSize

(* a descriptor record of zero bytes *)
ZeroDescriptor ==
  [inodeTableLocation |-> 0, checksum |-> 0, crc32cChecksum |-> 1, crc16Checksum |-> 1]

(* the i-th (0-based) record of the descriptor-table buffer *)
DescriptorRecord(b, i) ==
  IF b.cell.kind = "gdt" /\ i < Len(b.cell.descriptors)
  THEN b.cell.descriptors[i + 1]
  ELSE ZeroDescriptor

(* the register of a CRC: the value it started from and the bytes fed to   *)
(* it since; bits is the width of the value taken from it                  *)
Crc(alg, init, bits) == [alg |-> alg, init |-> init, stream |-> <<>>, bits |-> bits]

crc32c_update(crc, input) == [crc EXCEPT !.stream = @ \o input]

U32LE(n) == <<n % 256, (n \div 256) % 256, (n \div 65536) % 256, n \div 16777216>>

crc32c_update_u32(crc, n) == crc32c_update(crc, U32LE(n))

crc16_update(crc, input) == [crc EXCEPT !.stream = @ \o input]

crc16_update_u32(crc, n) == crc16_update(crc, U32LE(n))

(* the checksum of a record given by its bytes: head is b[:0x1e], tail is  *)
(* b[0x20:], len is len(b)                                                 *)
groupDescriptorChecksumOfBytes(rec, sb, blockGroup) ==
  IF "metadataChecksums" \in sb.features
  THEN LET c1 == crc32c_update_u32(Crc("crc32c", sb.checksumSeed, 32), blockGroup)
           c2 == crc32c_update(c1, rec.head)
           c3 == crc32c_update(c2, <<0, 0>>)
           c4 == IF checkSumOffSet + 2 < rec.len THEN crc32c_update(c3, rec.tail) ELSE c3
       IN [c4 EXCEPT !.bits = 16]
  ELSE IF "gdtChecksum" \in sb.features
  THEN LET c1 == crc16_update(Crc("crc16", 65535, 16), sb.uuid)
           c2 == crc16_update_u32(c1, blockGroup)
           c3 == crc16_update(c2, rec.head)
       IN IF "fs64Bit" \in sb.features /\ checkSumOffSet + 2 < rec.len
          THEN crc16_update(c3, rec.tail)
          ELSE c3
  ELSE 0

(* a variant that looks at gdtChecksum first *)
groupDescriptorChecksumGdtFirst(rec, sb, blockGroup) ==
  groupDescriptorChecksumOfBytes(rec,
    [sb EXCEPT !.features = IF "gdtChecksum" \in @ THEN @ \ {"metadataChecksums"} ELSE @],
    blockGroup)

(* groupDescriptorChecksum: the records of an image carry the values the   *)
(* two branches compute over their bytes, a record given by its bytes has  *)
(* them computed                                                           *)
groupDescriptorChecksum(rec, sb, blockGroup) ==
  IF "head" \in DOMAIN rec THEN groupDescriptorChecksumOfBytes(rec, sb, blockGroup)
  ELSE IF "metadataChecksums" \in sb.features THEN rec.crc32cChecksum
  ELSE IF "gdtChecksum" \in sb.features THEN rec.crc16Checksum
  ELSE 0

(* a variant that does not look at the checksum *)
groupDescriptorFromBytesUnchecked(rec, sb, blockGroupNumber) ==
  [err |-> NoErr,
   gd |-> [blockGroupNumber |-> blockGroupNumber,
           inodeTableLocation |-> rec.inodeTableLocation]]

groupDescriptorFromBytes(rec, sb, blockGroupNumber) ==
  IF /\ ("metadataChecksums" \in sb.features \/ "gdtChecksum" \in sb.features)
     /\ rec.checksum # groupDescriptorChecksum(rec, sb, blockGroupNumber)
  THEN [err |-> "checksum mismatch", gd |-> <<>>]
  ELSE [err |-> NoErr,
        gd |-> [blockGroupNumber |-> blockGroupNumber,
                inodeTableLocation |-> rec.inodeTableLocation]]

(* a variant that stops one record short of the table *)
groupDescriptorsFromBytesShort(b, sb) ==
  [err |-> NoErr,
   descriptors |-> [k \in 1..((b.len \div getGroupDescriptorSize(sb)) - 1) |->
                      groupDescriptorFromBytes(DescriptorRecord(b, k - 1), sb, k - 1).gd]]

(* groupDescriptorsFromBytes: one descriptor per gdSize bytes of b, the    *)
(* first failing record fails the whole table                              *)
groupDescriptorsFromBytes(b, sb) ==
  LET gdSize == getGroupDescriptorSize(sb)
      count == b.len \div gdSize
      one(i) == groupDescriptorFromBytes(DescriptorRecord(b, i), sb, i)
  IN IF \E i \in 0..(count - 1) : one(i).err # NoErr
     THEN [err |-> "groupDescriptorFromBytes", descriptors |-> <<>>]
     ELSE [err |-> NoErr, descriptors |-> [k \in 1..count |-> one(k - 1).gd]]

----------------------------------------------------------------------------
(* Read: open the filesystem found at byte offset start of the device *)

NoFS == [open |-> FALSE]

ReadResult(err, reads, filesystem) ==
  [err |-> err, reads |-> reads, fs |-> filesystem]

ReadFS(dev, size, start, sectorsize) ==
  IF sectorsize # SectorSize512 /\ sectorsize > 0
  THEN ReadResult(ErrSectorSize, <<>>, NoFS)
  ELSE IF size < Ext4MinSize THEN ReadResult(ErrTooSmall, <<>>, NoFS)
  ELSE
  LET r1 == ReadAt(dev, start, BootSectorSize) IN
  IF r1.err \/ r1.n < BootSectorSize THEN ReadResult(ErrBootRead, <<IO(r1)>>, NoFS)
  ELSE
  LET r2 == ReadAt(dev, start + BootSectorSize, SuperblockSize) IN
  IF r2.err \/ r2.n < SuperblockSize
  THEN ReadResult(ErrSuperblockRead, <<IO(r1), IO(r2)>>, NoFS)
  ELSE
  With(superblockFromBytes([len |-> r2.n, cell |-> CellAt(dev, r2.off, "superblock")]),
       LAMBDA s :
  IF s.err # NoErr THEN ReadResult(ErrSuperblock, <<IO(r1), IO(r2)>>, NoFS)
  ELSE
  With(getGroupDescriptorSize(s.sb) * blockGroupCount(s.sb), LAMBDA gdtSize :
  With(ReadAt(dev, start + BootSectorSize + SuperblockSize, gdtSize), LAMBDA r3 :
  IF r3.err \/ r3.n < gdtSize
  THEN ReadResult(ErrGDTRead, <<IO(r1), IO(r2), IO(r3)>>, NoFS)
  ELSE
  With(groupDescriptorsFromBytes([len |-> r3.n, cell |-> CellAt(dev, r3.off, "gdt")], s.sb),
       LAMBDA g :
  IF g.err # NoErr THEN ReadResult(ErrGDT, <<IO(r1), IO(r2), IO(r3)>>, NoFS)
  ELSE ReadResult(NoErr, <<IO(r1), IO(r2), IO(r3)>>,
         [open |-> TRUE,
          superblock |-> s.sb,
          groupDescriptors |-> g.descriptors,
          blockGroups |-> s.sb.blockCount,
          size |-> size,
          start |-> start])))))

----------------------------------------------------------------------------
(* Inodes and extent trees *)

extentTreeHeaderLength == 12
extentTreeEntryLength == 12
extentHeaderSignature == 62218
inodeExtentTreeBytes == 60

ZeroExtent == [fileBlock |-> 0, count |-> 0, startingBlock |-> 0]
ZeroIndex == [eiBlock |-> 0, eiLeaf |-> 0]

EntryAt(list, k, zero) == IF k <= Len(list) THEN list[k] ELSE zero

(* parseExtentTree over a buffer of len bytes holding the node cell: the   *)
(* signature is checked, then entries leaf or index records are decoded    *)
parseExtentTree(b) ==
  LET c == b.cell
      room == (b.len - extentTreeHeaderLength) \div extentTreeEntryLength
  IN
  IF b.len < extentTreeHeaderLength + extentTreeEntryLength
  THEN [err |-> "cannot parse extent tree", tree |-> <<>>]
  ELSE IF ~("magic" \in DOMAIN c) \/ c.magic # extentHeaderSignature
  THEN [err |-> "invalid extent tree header signature", tree |-> <<>>]
  ELSE IF c.depth = 0
  THEN IF c.entries > room THEN [err |-> ErrPanic, tree |-> <<>>]
       ELSE [err |-> NoErr,
             tree |-> [depth |-> 0, entries |-> c.entries, max |-> c.max,
                       extents |-> [k \in 1..c.entries |-> EntryAt(c.extents, k, ZeroExtent)],
                       children |-> <<>>]]
  ELSE IF c.entries > room
  THEN [err |-> "invalid size to parse extent tree internal nodes", tree |-> <<>>]
  ELSE [err |-> NoErr,
        tree |-> [depth |-> c.depth, entries |-> c.entries, max |-> c.max,
                  extents |-> <<>>,
                  children |-> [k \in 1..c.entries |-> EntryAt(c.children, k, ZeroIndex)]]]

(* parseFileType: the first matching case of the switch on the mode bits *)
parseFileType(mode) ==
  LET is(ft) == BitAnd(mode, ft) = ft IN
  IF is(fileTypeFifo) THEN fileTypeFifo
  ELSE IF is(fileTypeBlockDevice) THEN fileTypeBlockDevice
  ELSE IF is(fileTypeCharacterDevice) THEN fileTypeCharacterDevice
  ELSE IF is(fileTypeDirectory) THEN fileTypeDirectory
  ELSE IF is(fileTypeRegularFile) THEN fileTypeRegularFile
  ELSE IF is(fileTypeSocket) THEN fileTypeSocket
  ELSE IF is(fileTypeSymbolicLink) THEN fileTypeSymbolicLink
  ELSE fileTypeUnknown

NoExtents == [cached |-> FALSE, list |-> <<>>]

(* inodeFromBytes: a checksum mismatch only warns, a bad extent root fails *)
(* a variant that refuses an inode whose checksum does not match *)
inodeFromBytesStrict(b, sb, number) ==
  LET c == b.cell
      t == parseExtentTree([len |-> inodeExtentTreeBytes,
                            cell |-> IF c.kind = "inode" THEN c.extentTree ELSE RawCell])
      warn == /\ c.kind = "inode"
              /\ "metadataChecksums" \in sb.features
              /\ c.computedChecksum # c.checksum
  IN
  IF warn THEN [err |-> "inode checksum mismatch", warning |-> warn, inode |-> <<>>]
  ELSE IF t.err = ErrPanic THEN [err |-> ErrPanic, warning |-> warn, inode |-> <<>>]
  ELSE IF t.err # NoErr
  THEN [err |-> "error parsing extent tree", warning |-> warn, inode |-> <<>>]
  ELSE [err |-> NoErr, warning |-> warn,
        inode |-> [number |-> number,
                   mode |-> c.mode,
                   fileType |-> parseFileType(c.mode),
                   size |-> c.size,
                   modificationTimeSeconds |-> c.modificationTimeSeconds,
                   modificationTimeNanoseconds |-> c.modificationTimeNanoseconds,
                   extentTree |-> t.tree,
                   extents |-> NoExtents]]

inodeFromBytes(b, sb, number) ==
  LET c == b.cell
      t == parseExtentTree([len |-> inodeExtentTreeBytes,
                            cell |-> IF c.kind = "inode" THEN c.extentTree ELSE RawCell])
      warn == /\ c.kind = "inode"
              /\ "metadataChecksums" \in sb.features
              /\ c.computedChecksum # c.checksum
  IN
  IF t.err = ErrPanic THEN [err |-> ErrPanic, warning |-> warn, inode |-> <<>>]
  ELSE IF t.err # NoErr
  THEN [err |-> "error parsing extent tree", warning |-> warn, inode |-> <<>>]
  ELSE [err |-> NoErr, warning |-> warn,
        inode |-> [number |-> number,
                   mode |-> c.mode,
                   fileType |-> parseFileType(c.mode),
                   size |-> c.size,
                   modificationTimeSeconds |-> c.modificationTimeSeconds,
                   modificationTimeNanoseconds |-> c.modificationTimeNanoseconds,
                   extentTree |-> t.tree,
                   extents |-> NoExtents]]

(* readInode: locate the inode through its group's descriptor, read        *)
(* inodeSize bytes of the inode table and decode them                      *)
readInode(dev, f, inodeNumber) ==
  LET sb == f.superblock
      bg == (inodeNumber - 1) \div sb.inodesPerGroup
  IN
  IF bg + 1 > Len(f.groupDescriptors)
  THEN [err |-> ErrPanic, inode |-> <<>>, reads |-> <<>>]
  ELSE
  LET gd == f.groupDescriptors[bg + 1]
      byteStart == f.start + gd.inodeTableLocation * sb.blockSize
      offset == ((inodeNumber - 1) % sb.inodesPerGroup) * sb.inodeSize
      r == ReadAt(dev, byteStart + offset, sb.inodeSize)
  IN
  IF r.err THEN [err |-> "failed to read inode", inode |-> <<>>, reads |-> <<IO(r)>>]
  ELSE IF r.n # sb.inodeSize
  THEN [err |-> "read bytes for inode instead of inode size", inode |-> <<>>,
        reads |-> <<IO(r)>>]
  ELSE With(inodeFromBytes([len |-> r.n, cell |-> CellAt(dev, r.off, "inode")],
                            sb, inodeNumber),
            LAMBDA i : [err |-> i.err, inode |-> i.inode, reads |-> <<IO(r)>>])

(* extents put in the order of their file blocks *)
RECURSIVE InsertByFileBlock(_, _)
InsertByFileBlock(sorted, e) ==
  IF sorted = <<>> THEN <<e>>
  ELSE IF e.fileBlock < sorted[1].fileBlock THEN <<e>> \o sorted
  ELSE <<sorted[1]>> \o InsertByFileBlock(Tail(sorted), e)

RECURSIVE SortedByFileBlock(_)
SortedByFileBlock(extents) ==
  IF extents = <<>> THEN <<>>
  ELSE InsertByFileBlock(SortedByFileBlock(Tail(extents)), extents[1])

(* flattenExtentTree: a leaf returns its extents; an internal node reads   *)
(* one block per child, in stored order, checks the child's depth and      *)
(* appends what the child flattens to.  k is the next child to visit.      *)
RECURSIVE flattenChildren(_, _, _, _, _, _)

(* a flatten that hands the extents back sorted by file block *)
flattenExtentTreeSorted(dev, f, t) ==
  IF t.depth = 0
  THEN [err |-> NoErr, extents |-> SortedByFileBlock(t.extents), reads |-> <<>>]
  ELSE With(flattenChildren(dev, f, t, 1, <<>>, <<>>), LAMBDA r :
         [r EXCEPT !.extents = SortedByFileBlock(@)])

flattenExtentTree(dev, f, t) ==
  IF t.depth = 0 THEN [err |-> NoErr, extents |-> t.extents, reads |-> <<>>]
  ELSE flattenChildren(dev, f, t, 1, <<>>, <<>>)

(* a loop over the children that takes a child of any depth *)
RECURSIVE flattenChildrenAnyDepth(_, _, _, _, _, _)
flattenChildrenAnyDepth(dev, f, t, k, extents, reads) ==
  IF k > Len(t.children) THEN [err |-> NoErr, extents |-> extents, reads |-> reads]
  ELSE
  LET c == t.children[k]
      byteStart == f.start + c.eiLeaf * f.superblock.blockSize
      r == ReadAt(dev, byteStart, f.superblock.blockSize)
      rs == Append(reads, IO(r))
  IN
  IF r.err THEN [err |-> "extent child read error", extents |-> <<>>, reads |-> rs]
  ELSE
  With(parseExtentTree([len |-> r.n, cell |-> CellAt(dev, r.off, "extent")]), LAMBDA et :
  IF et.err = ErrPanic THEN [err |-> ErrPanic, extents |-> <<>>, reads |-> rs]
  ELSE IF et.err # NoErr
  THEN [err |-> "extent child parse error", extents |-> <<>>, reads |-> rs]
  ELSE
  With(flattenExtentTree(dev, f, et.tree), LAMBDA sub :
  IF sub.err # NoErr
  THEN [err |-> sub.err, extents |-> <<>>, reads |-> rs \o sub.reads]
  ELSE flattenChildrenAnyDepth(dev, f, t, k + 1, extents \o sub.extents, rs \o sub.reads)))

flattenChildren(dev, f, t, k, extents, reads) ==
  IF k > Len(t.children) THEN [err |-> NoErr, extents |-> extents, reads |-> reads]
  ELSE
  LET c == t.children[k]
      byteStart == f.start + c.eiLeaf * f.superblock.blockSize
      r == ReadAt(dev, byteStart, f.superblock.blockSize)
      rs == Append(reads, IO(r))
  IN
  IF r.err THEN [err |-> "extent child read error", extents |-> <<>>, reads |-> rs]
  ELSE
  With(parseExtentTree([len |-> r.n, cell |-> CellAt(dev, r.off, "extent")]), LAMBDA et :
  IF et.err = ErrPanic THEN [err |-> ErrPanic, extents |-> <<>>, reads |-> rs]
  ELSE IF et.err # NoErr
  THEN [err |-> "extent child parse error", extents |-> <<>>, reads |-> rs]
  ELSE IF et.tree.depth # t.depth - 1
  THEN [err |-> "wrong extent child data", extents |-> <<>>, reads |-> rs]
  ELSE
  With(flattenExtentTree(dev, f, et.tree), LAMBDA sub :
  IF sub.err # NoErr
  THEN [err |-> sub.err, extents |-> <<>>, reads |-> rs \o sub.reads]
  ELSE flattenChildren(dev, f, t, k + 1, extents \o sub.extents, rs \o sub.reads)))

(* getExtents: under the inode's mutex, the cached vector if there is one, *)
(* else the flattened tree, which is stored on the inode                   *)
getExtents(dev, f, in) ==
  IF in.extents.cached
  THEN [err |-> NoErr, extents |-> in.extents.list, reads |-> <<>>, inode |-> in]
  ELSE With(flattenExtentTree(dev, f, in.extentTree), LAMBDA fl :
       IF fl.err # NoErr
       THEN [err |-> fl.err, extents |-> <<>>, reads |-> fl.reads, inode |-> in]
       ELSE [err |-> NoErr, extents |-> fl.extents, reads |-> fl.reads,
             inode |-> [in EXCEPT !.extents = [cached |-> TRUE, list |-> fl.extents]]])

(* the loop of readFileBytes from extent k on: data is what was read so    *)
(* far, left the bytes of the buffer still to fill                         *)
RECURSIVE readExtentBytes(_, _, _, _, _, _, _)
readExtentBytes(dev, f, extents, k, data, left, reads) ==
  IF k > Len(extents)
  THEN IF left # 0 THEN [err |-> ErrPanic, data |-> <<>>, reads |-> reads]
       ELSE [err |-> NoErr, data |-> data, reads |-> reads]
  ELSE
  LET e == extents[k]
      start == e.startingBlock * f.superblock.blockSize
      count == Min(e.count * f.superblock.blockSize, left)
      r == ReadAt(dev, start, count)
      rs == Append(reads, IO(r))
  IN
  IF r.err THEN [err |-> ErrFileBytes, data |-> <<>>, reads |-> rs]
  ELSE IF r.n # count THEN [err |-> "Read bytes instead of count", data |-> <<>>, reads |-> rs]
  ELSE IF left - r.n = 0
  THEN [err |-> NoErr, data |-> data \o DevBytes(dev, start, r.n), reads |-> rs]
  ELSE readExtentBytes(dev, f, extents, k + 1,
                       data \o DevBytes(dev, start, r.n), left - r.n, rs)

(* readFileBytes: all in.size bytes of the file an inode describes *)
readFileBytes(dev, f, in) ==
  With(getExtents(dev, f, in), LAMBDA x :
  IF x.err # NoErr
  THEN [err |-> x.err, data |-> <<>>, reads |-> x.reads, inode |-> x.inode]
  ELSE With(readExtentBytes(dev, f, x.extents, 1, <<>>, in.size, x.reads), LAMBDA d :
       [err |-> d.err, data |-> d.data, reads |-> d.reads, inode |-> x.inode]))

----------------------------------------------------------------------------
(* Directory entries *)

(* directoryEntryFromBytes on the record buf[i : i+length]; the name is    *)
(* sliced from that record and may run up to the capacity of the buffer    *)
directoryEntryFromBytes(sb, buf, i, length) ==
  IF length < minDirEntryLength
  THEN [kind |-> "err", de |-> <<>>]
  ELSE
  LET inode == Uint32(buf, i) IN
  IF inode = 0 THEN [kind |-> "nil", de |-> <<>>]
  ELSE
  LET withFt == "directoryEntriesRecordFileType" \in sb.features
      nameLength == buf[i + 6 + 1]
      ft == buf[i + 7 + 1]
  IN
  IF withFt /\ ft > Len(filetypeMap)
  THEN IF ft = tombstoneFileType THEN [kind |-> "nil", de |-> <<>>]
       ELSE [kind |-> "err", de |-> <<>>]
  ELSE IF withFt /\ ft + 1 > Len(filetypeMap)
  THEN [kind |-> "panic", de |-> <<>>]
  ELSE IF i + 8 + nameLength > Len(buf)
  THEN [kind |-> "panic", de |-> <<>>]
  ELSE [kind |-> "entry",
        de |-> [inode |-> inode,
                filename |-> Slice(buf, i + 8, i + 8 + nameLength),
                fileType |-> IF withFt THEN filetypeMap[ft + 1] ELSE fileTypeUnknown]]

(* the walk both parsers share: the record at cursor i, or why there is    *)
(* none (the two length bytes or the record itself lie outside the buffer) *)
RecordAt(sb, buf, i) ==
  IF i + 6 > Len(buf) THEN [kind |-> "panic", de |-> <<>>, length |-> 0]
  ELSE LET length == Uint16(buf, i + 4) IN
       IF i + length > Len(buf) THEN [kind |-> "panic", de |-> <<>>, length |-> length]
       ELSE With(directoryEntryFromBytes(sb, buf, i, length),
                 LAMBDA d : [kind |-> d.kind, de |-> d.de, length |-> length])

(* a parse that takes a record without inode, or a tombstone, for the end  *)
(* of the directory                                                        *)
RECURSIVE parseDirEntriesToTheFirstHole(_, _, _, _)
parseDirEntriesToTheFirstHole(sb, buf, i, entries) ==
  IF i >= Len(buf) THEN [err |-> NoErr, entries |-> entries, cursor |-> i]
  ELSE
  With(RecordAt(sb, buf, i), LAMBDA r :
  IF r.kind = "panic" THEN [err |-> ErrPanic, entries |-> <<>>, cursor |-> i]
  ELSE IF r.kind = "err"
  THEN [err |-> "failed to parse directory entry", entries |-> <<>>, cursor |-> i]
  ELSE IF r.kind = "nil" THEN [err |-> NoErr, entries |-> entries, cursor |-> i]
  ELSE parseDirEntriesToTheFirstHole(sb, buf, i + r.length,
         IF r.de.filename # NameDot /\ r.de.filename # NameDotDot
         THEN Append(entries, r.de)
         ELSE entries))

(* parseDirEntries: every entry of the buffer but "." and ".."; cursor is  *)
(* the value of i when the function returns                                *)
RECURSIVE parseDirEntriesFrom(_, _, _, _)
parseDirEntriesFrom(sb, buf, i, entries) ==
  IF i >= Len(buf) THEN [err |-> NoErr, entries |-> entries, cursor |-> i]
  ELSE
  With(RecordAt(sb, buf, i), LAMBDA r :
  IF r.kind = "panic" THEN [err |-> ErrPanic, entries |-> <<>>, cursor |-> i]
  ELSE IF r.kind = "err"
  THEN [err |-> "failed to parse directory entry", entries |-> <<>>, cursor |-> i]
  ELSE parseDirEntriesFrom(sb, buf, i + r.length,
         IF r.kind = "entry" /\ r.de.filename # NameDot /\ r.de.filename # NameDotDot
         THEN Append(entries, r.de)
         ELSE entries))

parseDirEntries(sb, buf) == parseDirEntriesFrom(sb, buf, 0, <<>>)

(* findDirEntry: the first entry with the name, "." and ".." included *)
RECURSIVE findDirEntryFrom(_, _, _, _)
findDirEntryFrom(sb, buf, i, filename) ==
  IF i >= Len(buf) THEN [err |-> NoErr, found |-> FALSE, de |-> <<>>]
  ELSE
  With(RecordAt(sb, buf, i), LAMBDA r :
  IF r.kind = "panic" THEN [err |-> ErrPanic, found |-> FALSE, de |-> <<>>]
  ELSE IF r.kind = "err"
  THEN [err |-> "failed to parse directory entry", found |-> FALSE, de |-> <<>>]
  ELSE IF r.kind = "entry" /\ r.de.filename = filename
  THEN [err |-> NoErr, found |-> TRUE, de |-> r.de]
  ELSE findDirEntryFrom(sb, buf, i + r.length, filename))

findDirEntry(sb, buf, filename) == findDirEntryFrom(sb, buf, 0, filename)

----------------------------------------------------------------------------
(* Paths are byte strings; strings.Split, path.Clean, path.Dir, path.Base  *)

Slash == 47
Dot == 46

(* strings.Split(p, "/") *)
RECURSIVE SplitFrom(_, _, _, _)
SplitFrom(p, k, cur, acc) ==
  IF k > Len(p) THEN Append(acc, cur)
  ELSE IF p[k] = Slash THEN SplitFrom(p, k + 1, <<>>, Append(acc, cur))
  ELSE SplitFrom(p, k + 1, Append(cur, p[k]), acc)

Split(p) == SplitFrom(p, 1, <<>>, <<>>)

RECURSIVE Join(_)
Join(segs) ==
  IF Len(segs) = 0 THEN <<>>
  ELSE IF Len(segs) = 1 THEN segs[1]
  ELSE segs[1] \o <<Slash>> \o Join(Tail(segs))

(* path.Clean: drop empty and "." elements, resolve ".." against the       *)
(* element before it, keep a leading "/", return "." for the empty path    *)
RECURSIVE CleanSegs(_, _, _, _)
CleanSegs(segs, k, rooted, out) ==
  IF k > Len(segs) THEN out
  ELSE IF segs[k] = <<>> \/ segs[k] = NameDot THEN CleanSegs(segs, k + 1, rooted, out)
  ELSE IF segs[k] = NameDotDot
  THEN IF Len(out) > 0 /\ out[Len(out)] # NameDotDot
       THEN CleanSegs(segs, k + 1, rooted, SubSeq(out, 1, Len(out) - 1))
       ELSE IF rooted THEN CleanSegs(segs, k + 1, rooted, out)
       ELSE CleanSegs(segs, k + 1, rooted, Append(out, NameDotDot))
  ELSE CleanSegs(segs, k + 1, rooted, Append(out, segs[k]))

Clean(p) ==
  IF p = <<>> THEN NameDot
  ELSE With(Join(CleanSegs(Split(p), 1, p[1] = Slash, <<>>)), LAMBDA out :
         IF p[1] = Slash THEN <<Slash>> \o out
         ELSE IF out = <<>> THEN NameDot ELSE out)

LastSlash(p) ==
  LET S == {k \in 1..Len(p) : p[k] = Slash}
  IN IF S = {} THEN 0 ELSE CHOOSE k \in S : \A j \in S : j <= k

(* path.Dir: everything up to the last slash, cleaned *)
Dir(p) == Clean(SubSeq(p, 1, LastSlash(p)))

RECURSIVE StripTrailingSlashes(_)
StripTrailingSlashes(p) ==
  IF Len(p) > 0 /\ p[Len(p)] = Slash
  THEN StripTrailingSlashes(SubSeq(p, 1, Len(p) - 1))
  ELSE p

(* path.Base: the last element, "." for the empty path, "/" for slashes *)
Base(p) ==
  IF p = <<>> THEN NameDot
  ELSE With(StripTrailingSlashes(p), LAMBDA q :
         IF q = <<>> THEN NameSlash ELSE SubSeq(q, LastSlash(q) + 1, Len(q)))

----------------------------------------------------------------------------
(* Lookup and traversal *)

ErrDoesNotExist == "does not exist"
ErrNotADirectory == "is not a directory"
ErrReadingEntry == "error reading entry"
ErrReadingFileBytes == "error reading file bytes for inode"
ErrParseDirEntry == "failed to parse directory entry"

(* fileType.matches *)
matches(ft, ft2) == BitAnd(ft, ft2) = ft2

(* findDirectoryEntry: the inode and file type of the entry called         *)
(* filename in the directory in, found FALSE when there is none            *)
findDirectoryEntry(dev, f, in, filename) ==
  With(readFileBytes(dev, f, in), LAMBDA b :
  IF b.err = ErrPanic
  THEN [err |-> ErrPanic, found |-> FALSE, inode |-> <<>>, fileType |-> fileTypeUnknown,
        reads |-> b.reads]
  ELSE IF b.err # NoErr
  THEN [err |-> ErrReadingFileBytes, found |-> FALSE, inode |-> <<>>,
        fileType |-> fileTypeUnknown, reads |-> b.reads]
  ELSE
  With(findDirEntry(f.superblock, b.data, filename), LAMBDA e :
  IF e.err # NoErr
  THEN [err |-> e.err, found |-> FALSE, inode |-> <<>>, fileType |-> fileTypeUnknown,
        reads |-> b.reads]
  ELSE IF ~e.found
  THEN [err |-> NoErr, found |-> FALSE, inode |-> <<>>, fileType |-> fileTypeUnknown,
        reads |-> b.reads]
  ELSE With(readInode(dev, f, e.de.inode), LAMBDA i :
       [err |-> i.err, found |-> i.err = NoErr, inode |-> i.inode,
        fileType |-> e.de.fileType, reads |-> b.reads \o i.reads])))

(* the loop of findDirInode over the segments of the path, from segment k *)
RECURSIVE walkDirs(_, _, _, _, _, _)
walkDirs(dev, f, dirs, k, inode, reads) ==
  IF k > Len(dirs) THEN [err |-> NoErr, inode |-> inode, reads |-> reads]
  ELSE IF dirs[k] = <<>> THEN walkDirs(dev, f, dirs, k + 1, inode, reads)
  ELSE
  With(findDirectoryEntry(dev, f, inode, dirs[k]), LAMBDA e :
  With(reads \o e.reads, LAMBDA rs :
  IF e.err = ErrPanic THEN [err |-> ErrPanic, inode |-> <<>>, reads |-> rs]
  ELSE IF e.err # NoErr THEN [err |-> ErrReadingEntry, inode |-> <<>>, reads |-> rs]
  ELSE IF ~e.found THEN [err |-> ErrDoesNotExist, inode |-> <<>>, reads |-> rs]
  ELSE IF e.fileType # fileTypeUnknown /\ e.fileType # fileTypeDirectory
  THEN [err |-> ErrNotADirectory, inode |-> <<>>, reads |-> rs]
  ELSE walkDirs(dev, f, dirs, k + 1, e.inode, rs)))

(* findDirInode: the inode of the directory a path names, from inode 2 *)
findDirInode(dev, f, p) ==
  With(readInode(dev, f, rootInodeNumber), LAMBDA root :
  IF root.err # NoErr THEN [err |-> root.err, inode |-> <<>>, reads |-> root.reads]
  ELSE IF p = <<Slash>> THEN [err |-> NoErr, inode |-> root.inode, reads |-> root.reads]
  ELSE walkDirs(dev, f, Split(p), 1, root.inode, root.reads))

(* readDirectory: the entries of the directory an inode describes *)
readDirectory(dev, f, in) ==
  With(readFileBytes(dev, f, in), LAMBDA b :
  IF b.err = ErrPanic THEN [err |-> ErrPanic, entries |-> <<>>, reads |-> b.reads]
  ELSE IF b.err # NoErr
  THEN [err |-> ErrReadingFileBytes, entries |-> <<>>, reads |-> b.reads]
  ELSE With(parseDirEntries(f.superblock, b.data), LAMBDA d :
       [err |-> d.err, entries |-> d.entries, reads |-> b.reads]))

(* readDir: walk down to the directory, then read it *)
readDir(dev, f, p) ==
  With(findDirInode(dev, f, p), LAMBDA i :
  IF i.err # NoErr THEN [err |-> i.err, entries |-> <<>>, reads |-> i.reads]
  ELSE With(readDirectory(dev, f, i.inode), LAMBDA d :
       [err |-> d.err, entries |-> d.entries, reads |-> i.reads \o d.reads]))

(* inode.toUnixPerm: the mode bits plus one flag per matching file type *)
toUnixPerm(in, ft) ==
  [bits |-> in.mode,
   flags |-> {m \in {"ModeNamedPipe", "ModeCharDevice", "ModeDir", "ModeDevice",
                     "ModeSocket", "ModeSymlink"} :
                \/ m = "ModeNamedPipe" /\ matches(ft, fileTypeFifo)
                \/ m = "ModeCharDevice" /\ matches(ft, fileTypeCharacterDevice)
                \/ m = "ModeDir" /\ matches(ft, fileTypeDirectory)
                \/ m = "ModeDevice" /\ matches(ft, fileTypeBlockDevice)
                \/ m = "ModeSocket" /\ matches(ft, fileTypeSocket)
                \/ m = "ModeSymlink" /\ matches(ft, fileTypeSymbolicLink)}]

(* the loop of ReadDir: one FileInfo per entry, from the entry's inode *)
RECURSIVE fileInfos(_, _, _, _, _, _)
fileInfos(dev, f, entries, k, ret, reads) ==
  IF k > Len(entries) THEN [err |-> NoErr, cause |-> NoErr, infos |-> ret, reads |-> reads]
  ELSE
  With(entries[k], LAMBDA e :
  With(readInode(dev, f, e.inode), LAMBDA i :
  With(reads \o i.reads, LAMBDA rs :
  IF i.err = ErrPanic
  THEN [err |-> ErrPanic, cause |-> ErrPanic, infos |-> <<>>, reads |-> rs]
  ELSE IF i.err # NoErr
  THEN [err |-> ErrReadInode, cause |-> i.err, infos |-> <<>>, reads |-> rs]
  ELSE fileInfos(dev, f, entries, k + 1,
         Append(ret, [modTime |-> <<i.inode.modificationTimeSeconds,
                                    i.inode.modificationTimeNanoseconds>>,
                      mode |-> toUnixPerm(i.inode, e.fileType),
                      name |-> e.filename,
                      size |-> i.inode.size,
                      isDir |-> matches(e.fileType, fileTypeDirectory)]),
         rs))))

(* FileSystem.ReadDir *)
ReadDirFS(dev, f, p) ==
  With(readDir(dev, f, p), LAMBDA d :
  IF d.err = ErrPanic
  THEN [err |-> ErrPanic, cause |-> ErrPanic, infos |-> <<>>, reads |-> d.reads]
  ELSE IF d.err # NoErr
  THEN [err |-> ErrReadingDirectory, cause |-> d.err, infos |-> <<>>, reads |-> d.reads]
  ELSE fileInfos(dev, f, d.entries, 1, <<>>, d.reads))

(* the loop of OpenFile over the entries of the parent directory: the last *)
(* entry with the name, unless one with the name is a directory            *)
RECURSIVE targetEntry(_, _, _, _)
targetEntry(entries, filename, k, target) ==
  IF k > Len(entries) THEN [isDir |-> FALSE, target |-> target]
  ELSE IF entries[k].filename # filename
  THEN targetEntry(entries, filename, k + 1, target)
  ELSE IF BitAnd(entries[k].fileType, fileTypeDirectory) = fileTypeDirectory
  THEN [isDir |-> TRUE, target |-> <<>>]
  ELSE targetEntry(entries, filename, k + 1, <<entries[k]>>)

NoFile == [open |-> FALSE]

OpenResult(err, cause, fl, reads) ==
  [err |-> err, cause |-> cause, file |-> fl, reads |-> reads]

(* FileSystem.OpenFile *)
OpenFileFS(dev, f, p, flag) ==
  IF BitAnd(flag, O_CREATE + O_APPEND + O_WRONLY + O_RDWR) # 0
  THEN OpenResult(ErrWriteNotSupported, NoErr, NoFile, <<>>)
  ELSE
  With(Dir(p), LAMBDA dir :
  With(Base(p), LAMBDA filename :
  IF filename = NameSlash THEN OpenResult(ErrIsADirectory, NoErr, NoFile, <<>>)
  ELSE
  With(readDir(dev, f, dir), LAMBDA d :
  IF d.err = ErrPanic THEN OpenResult(ErrPanic, ErrPanic, NoFile, d.reads)
  ELSE IF d.err # NoErr THEN OpenResult(ErrReadDirEntries, d.err, NoFile, d.reads)
  ELSE
  With(targetEntry(d.entries, filename, 1, <<>>), LAMBDA t :
  IF t.isDir THEN OpenResult(ErrIsADirectory, NoErr, NoFile, d.reads)
  ELSE IF t.target = <<>> THEN OpenResult(ErrNotFound, NoErr, NoFile, d.reads)
  ELSE
  With(readInode(dev, f, t.target[1].inode), LAMBDA i :
  With(d.reads \o i.reads, LAMBDA rs :
  IF i.err = ErrPanic THEN OpenResult(ErrPanic, ErrPanic, NoFile, rs)
  ELSE IF i.err # NoErr THEN OpenResult(ErrReadInode, i.err, NoFile, rs)
  ELSE OpenResult(NoErr, NoErr,
         [open |-> TRUE,
          directoryEntry |-> t.target[1],
          inode |-> i.inode,
          isReadWrite |-> BitAnd(flag, O_RDWR) # 0,
          isAppend |-> BitAnd(flag, O_APPEND) # 0,
          offset |-> IF BitAnd(flag, O_APPEND) = O_APPEND THEN i.inode.size ELSE 0],
         rs)))))))

----------------------------------------------------------------------------
(* Files *)

(* bytes.Reader.ReadAt over data, into a buffer of n bytes, at offset off *)
ReaderReadAt(data, n, off) ==
  IF off < 0 THEN [n |-> 0, err |-> "negative offset", bytes |-> <<>>]
  ELSE IF off >= Len(data) THEN [n |-> 0, err |-> ErrEOF, bytes |-> <<>>]
  ELSE LET m == Min(n, Len(data) - off)
       IN [n |-> m, err |-> IF m < n THEN ErrEOF ELSE NoErr,
           bytes |-> Slice(data, off, off + m)]

(* a variant that advances the offset by the size of the buffer *)
FileReadAdvancingLen(dev, f, fl, n) ==
  With(readFileBytes(dev, f, fl.inode), LAMBDA d :
  IF d.err # NoErr
  THEN [n |-> 0, err |-> d.err, bytes |-> <<>>,
        file |-> [fl EXCEPT !.inode = d.inode], reads |-> d.reads]
  ELSE With(ReaderReadAt(d.data, n, fl.offset), LAMBDA r :
       [n |-> r.n, err |-> r.err, bytes |-> r.bytes,
        file |-> [fl EXCEPT !.inode = d.inode, !.offset = fl.offset + n],
        reads |-> d.reads]))

(* File.Read into a buffer of n bytes: the whole file is read, then the    *)
(* part at the offset is copied out and the offset advanced                *)
FileRead(dev, f, fl, n) ==
  With(readFileBytes(dev, f, fl.inode), LAMBDA d :
  IF d.err # NoErr
  THEN [n |-> 0, err |-> d.err, bytes |-> <<>>,
        file |-> [fl EXCEPT !.inode = d.inode], reads |-> d.reads]
  ELSE With(ReaderReadAt(d.data, n, fl.offset), LAMBDA r :
       [n |-> r.n, err |-> r.err, bytes |-> r.bytes,
        file |-> [fl EXCEPT !.inode = d.inode, !.offset = fl.offset + r.n],
        reads |-> d.reads]))

(* File.Write *)
FileWrite(fl, p) ==
  [n |-> 0, err |-> ErrWriteNotSupported, file |-> fl, writes |-> <<>>]

(* a variant that moves the offset before it refuses the move *)
FileSeekMovingFirst(fl, offset, whence) ==
  With(IF whence = SeekStart THEN offset
       ELSE IF whence = SeekEnd THEN fl.inode.size + offset
       ELSE IF whence = SeekCurrent THEN fl.offset + offset
       ELSE 0,
       LAMBDA newOffset :
         IF newOffset < 0
         THEN [ret |-> newOffset, err |-> ErrInvalidSeek,
               file |-> [fl EXCEPT !.offset = newOffset]]
         ELSE [ret |-> newOffset, err |-> NoErr,
               file |-> [fl EXCEPT !.offset = newOffset]])

(* a variant whose end-relative seek forgets the size of the file *)
FileSeekEndFromZero(fl, offset, whence) ==
  With(IF whence = SeekStart \/ whence = SeekEnd THEN offset
       ELSE IF whence = SeekCurrent THEN fl.offset + offset
       ELSE 0,
       LAMBDA newOffset :
         IF newOffset < 0
         THEN [ret |-> fl.offset, err |-> ErrInvalidSeek, file |-> fl]
         ELSE [ret |-> newOffset, err |-> NoErr,
               file |-> [fl EXCEPT !.offset = newOffset]])

(* File.Seek *)
FileSeek(fl, offset, whence) ==
  LET newOffset == IF whence = SeekStart THEN offset
                   ELSE IF whence = SeekEnd THEN fl.inode.size + offset
                   ELSE IF whence = SeekCurrent THEN fl.offset + offset
                   ELSE 0
  IN IF newOffset < 0
     THEN [ret |-> fl.offset, err |-> ErrInvalidSeek, file |-> fl]
     ELSE [ret |-> newOffset, err |-> NoErr, file |-> [fl EXCEPT !.offset = newOffset]]

(* File.Close *)
FileClose(fl) == [err |-> NoErr, file |-> fl]

(* a variant that stores the name in the first block after the tables *)
MkdirFSWriting(f, p) ==
  [err |-> NoErr, writes |-> <<[off |-> f.start + 4 * 1024, bytes |-> p]>>]

(* FileSystem.Mkdir *)
MkdirFS(f, p) == [err |-> ErrNotImplemented, writes |-> <<>>]

----------------------------------------------------------------------------
(* Inputs the callers choose from *)

PathF == <<Slash>> \o NameF
PathD == <<Slash>> \o NameD
PathE == <<Slash>> \o NameE
PathX == <<Slash>> \o NameX
PathDG == PathD \o <<Slash>> \o NameG

Paths ==
  { <<Slash>>, <<>>, PathF, PathD, PathE, PathX, PathDG,
    PathD \o <<Slash>> \o NameX,
    PathF \o <<Slash>> \o NameX,
    PathD \o <<Slash>> \o NameDotDot,
    <<Slash>> \o PathD \o <<Slash>> }

Flags ==
  {O_RDONLY, O_WRONLY, O_RDWR, O_CREATE, O_APPEND, O_TRUNC, O_EXCL,
   O_RDWR + O_CREATE}

(* read-only opens of every path, every flag on a few of them *)
OpenInputs ==
  {<<p, O_RDONLY>> : p \in Paths} \cup ({PathF, PathD, PathX} \X Flags)

MkdirPaths == {PathX, PathD}

SectorSizes == {-512, -1, 0, 1, SectorSize512, 4096}

Sizes == {0, Ext4MinSize - 1, Ext4MinSize, 18 * 1024}

Starts == ImageStarts \cup {1024}

Whences == {SeekStart, SeekCurrent, SeekEnd, 3}

----------------------------------------------------------------------------
(* The state machine.  The caller opens the image once, then lists         *)
(* directories, makes directories and opens files; it holds one File at a  *)
(* time, works on it and gives it up when it closes it.  res records the   *)
(* last call: what was asked, what came back and the device reads it       *)
(* issued.  hist remembers the path the File was opened by and, while the  *)
(* Reads have run on from offset 0, the bytes they returned.               *)

NoRes == [op |-> "none"]
NoHist == [path |-> <<>>, fromStart |-> FALSE, got |-> <<>>]

(* mutex is the goroutine inside an inode's critical section, 0 when it    *)
(* is free; calls is what each goroutine calling getExtents is doing       *)
NoCalls == <<>>

Init ==
  /\ device \in Devices
  /\ writes = <<>>
  /\ fs = NoFS
  /\ file = NoFile
  /\ hist = NoHist
  /\ res = NoRes
  /\ mutex = 0
  /\ calls = NoCalls

DoRead(size, start, sectorsize) ==
  /\ ~fs.open
  /\ res' = [op |-> "Read", size |-> size, start |-> start, sectorsize |-> sectorsize]
             @@ ReadFS(device, size, start, sectorsize)
  /\ fs' = res'.fs
  /\ UNCHANGED <<device, writes, file, hist>>
  /\ UNCHANGED <<mutex, calls>>

DoReadDir(p) ==
  /\ fs.open
  /\ ~file.open
  /\ res' = [op |-> "ReadDir", path |-> p] @@ ReadDirFS(device, fs, p)
  /\ UNCHANGED <<device, writes, fs, file, hist>>
  /\ UNCHANGED <<mutex, calls>>

DoMkdir(p) ==
  /\ fs.open
  /\ ~file.open
  /\ res' = [op |-> "Mkdir", path |-> p] @@ MkdirFS(fs, p)
  /\ writes' = writes \o res'.writes
  /\ device' = ApplyWrites(device, res'.writes)
  /\ UNCHANGED <<fs, file, hist>>
  /\ UNCHANGED <<mutex, calls>>

DoOpenFile(p, flag) ==
  /\ fs.open
  /\ ~file.open
  /\ res' = [op |-> "OpenFile", path |-> p, flag |-> flag]
             @@ OpenFileFS(device, fs, p, flag)
  /\ file' = res'.file
  /\ hist' = IF res'.file.open
             THEN [path |-> p, fromStart |-> res'.file.offset = 0, got |-> <<>>]
             ELSE NoHist
  /\ UNCHANGED <<device, writes, fs>>
  /\ UNCHANGED <<mutex, calls>>

DoFileRead(n) ==
  /\ file.open
  /\ res' = [op |-> "FileRead", len |-> n, before |-> file.offset]
             @@ FileRead(device, fs, file, n)
  /\ file' = res'.file
  /\ hist' = IF hist.fromStart THEN [hist EXCEPT !.got = @ \o res'.bytes] ELSE hist
  /\ UNCHANGED <<device, writes, fs>>
  /\ UNCHANGED <<mutex, calls>>

DoFileWrite(n) ==
  /\ file.open
  /\ res' = [op |-> "FileWrite", len |-> n] @@ FileWrite(file, Zeros(n))
  /\ file' = res'.file
  /\ writes' = writes \o res'.writes
  /\ device' = ApplyWrites(device, res'.writes)
  /\ UNCHANGED <<fs, hist>>
  /\ UNCHANGED <<mutex, calls>>

DoFileSeek(offset, whence) ==
  /\ file.open
  /\ res' = [op |-> "FileSeek", offset |-> offset, whence |-> whence,
              before |-> file.offset]
             @@ FileSeek(file, offset, whence)
  /\ res'.file.offset <= MaxOffset
  /\ file' = res'.file
  /\ hist' = IF res'.err # NoErr THEN hist
             ELSE [hist EXCEPT !.fromStart = (res'.file.offset = 0), !.got = <<>>]
  /\ UNCHANGED <<device, writes, fs>>
  /\ UNCHANGED <<mutex, calls>>

DoFileClose ==
  /\ file.open
  /\ res' = [op |-> "FileClose"] @@ FileClose(file)
  /\ file' = NoFile
  /\ hist' = NoHist
  /\ UNCHANGED <<device, writes, fs>>
  /\ UNCHANGED <<mutex, calls>>

Next ==
  \/ \E size \in Sizes, start \in Starts, sectorsize \in SectorSizes :
       DoRead(size, start, sectorsize)
  \/ \E p \in Paths : DoReadDir(p)
  \/ \E p \in MkdirPaths : DoMkdir(p)
  \/ \E in \in OpenInputs : DoOpenFile(in[1], in[2])
  \/ \E n \in 0..MaxBuf : DoFileRead(n)
  \/ \E n \in 0..MaxBuf : DoFileWrite(n)
  \/ \E offset \in (-MaxSeek)..MaxSeek, whence \in Whences : DoFileSeek(offset, whence)
  \/ DoFileClose

Spec == Init /\ [][Next]_vars

----------------------------------------------------------------------------
(* The reader's own steps on an opened filesystem, applied to the inodes   *)
(* of images whose extents hang off index nodes.                           *)

TreeInodes == 2..12

TreeInit ==
  /\ device \in TreeDevices
  /\ writes = <<>>
  /\ fs = NoFS
  /\ file = NoFile
  /\ hist = NoHist
  /\ res = NoRes
  /\ mutex = 0
  /\ calls = NoCalls

(* readInode(n) *)
DoReadInode(n) ==
  /\ fs.open
  /\ res' = [op |-> "readInode", number |-> n] @@ readInode(device, fs, n)
  /\ UNCHANGED <<device, writes, fs, file, hist, mutex, calls>>

(* flattenExtentTree on the tree of inode n as readInode decodes it *)
DoFlattenExtentTree(n) ==
  /\ fs.open
  /\ readInode(device, fs, n).err = NoErr
  /\ res' = [op |-> "flattenExtentTree", number |-> n,
              tree |-> readInode(device, fs, n).inode.extentTree]
             @@ flattenExtentTree(device, fs, readInode(device, fs, n).inode.extentTree)
  /\ UNCHANGED <<device, writes, fs, file, hist, mutex, calls>>

(* readFileBytes on inode n as readInode decodes it *)
DoReadFileBytes(n) ==
  /\ fs.open
  /\ readInode(device, fs, n).err = NoErr
  /\ res' = [op |-> "readFileBytes", number |-> n,
              in |-> readInode(device, fs, n).inode]
             @@ readFileBytes(device, fs, readInode(device, fs, n).inode)
  /\ UNCHANGED <<device, writes, fs, file, hist, mutex, calls>>

TreeNext ==
  \/ \E size \in Sizes, start \in Starts, sectorsize \in SectorSizes :
       DoRead(size, start, sectorsize)
  \/ \E n \in TreeInodes : DoReadInode(n)
  \/ \E n \in TreeInodes : DoFlattenExtentTree(n)
  \/ \E n \in TreeInodes : DoReadFileBytes(n)

TreeSpec == TreeInit /\ [][TreeNext]_vars

----------------------------------------------------------------------------
(* A root directory with an entry of every file type *)

(* the names u, f, d, c, b, p, s, l carry the type codes 0..7; all but d   *)
(* lead to the inode of f                                                  *)
TypeNames == <<<<117>>, NameF, NameD, <<99>>, <<98>>, <<112>>, <<115>>, <<108>>>>

RECURSIVE TypeRecords(_)
TypeRecords(code) ==
  IF code > 7 THEN <<>>
  ELSE DirRec(IF code = 2 THEN 4 ELSE 3, 12, code, TypeNames[code + 1])
       \o TypeRecords(code + 1)

TypesBody ==
  DirRec(2, 12, 2, NameDot) \o DirRec(2, 12, 2, NameDotDot) \o TypeRecords(0)

TypesImage ==
  Patched(Patched(Image(0, TRUE, FALSE),
                  4 * 1024, LAMBDA c : [kind |-> "data", bytes |-> TypesBody]),
          3 * 1024 + 128, LAMBDA c : [c EXCEPT !.size = Len(TypesBody)])

TypePaths ==
  {<<Slash>>, PathX} \cup {<<Slash>> \o TypeNames[k] : k \in 1..Len(TypeNames)}

TypeInit ==
  /\ device = TypesImage
  /\ writes = <<>>
  /\ fs = ReadFS(device, Ext4MinSize, 0, 0).fs
  /\ file = NoFile
  /\ hist = NoHist
  /\ res = NoRes
  /\ mutex = 0
  /\ calls = NoCalls

TypeNext ==
  \/ \E p \in TypePaths : DoReadDir(p)
  \/ \E p \in TypePaths : DoOpenFile(p, O_RDONLY)
  \/ \E n \in 0..MaxBuf : DoFileRead(n)
  \/ \E offset \in (-MaxSeek)..MaxSeek, whence \in Whences : DoFileSeek(offset, whence)
  \/ DoFileClose

TypeSpec == TypeInit /\ [][TypeNext]_vars

----------------------------------------------------------------------------
(* Directory hashes.  A uint32 is kept as its two 16-bit halves, so that   *)
(* every sum, shift and product wraps at 2^32 as it does in the code.      *)

W(hi, lo) == <<hi, lo>>
Hi(w) == w[1]
Lo(w) == w[2]

(* uint32(x) of an int that may be negative *)
ToWord(x) == W((x \div 65536) % 65536, x % 65536)

Add32(a, b) ==
  W((Hi(a) + Hi(b) + (Lo(a) + Lo(b)) \div 65536) % 65536, (Lo(a) + Lo(b)) % 65536)
And32(a, b) == W(BitAnd(Hi(a), Hi(b)), BitAnd(Lo(a), Lo(b)))
Or32(a, b) ==
  W(Hi(a) + Hi(b) - BitAnd(Hi(a), Hi(b)), Lo(a) + Lo(b) - BitAnd(Lo(a), Lo(b)))
Xor32(a, b) ==
  W(Hi(a) + Hi(b) - 2 * BitAnd(Hi(a), Hi(b)), Lo(a) + Lo(b) - 2 * BitAnd(Lo(a), Lo(b)))
Not32(a) == W(65535 - Hi(a), 65535 - Lo(a))
Sub32(a, b) == Add32(Add32(a, Not32(b)), W(0, 1))

(* w << k and w >> k for 0 <= k < 32 *)
Shl32(w, k) ==
  IF k >= 16 THEN W((Lo(w) * Exp2(k - 16)) % 65536, 0)
  ELSE W((Hi(w) * Exp2(k) + (Lo(w) * Exp2(k)) \div 65536) % 65536, (Lo(w) * Exp2(k)) % 65536)
Shr32(w, k) ==
  IF k >= 16 THEN W(0, Hi(w) \div Exp2(k - 16))
  ELSE W(Hi(w) \div Exp2(k), Lo(w) \div Exp2(k) + (Hi(w) % Exp2(k)) * Exp2(16 - k))

teaDelta == W(40503, 31161)
k1 == W(0, 0)
k2 == W(23170, 31129)
k3 == W(28377, 60321)
ext4HtreeEOF32 == W(32767, 65535)

HashVersionLegacy == 0
HashVersionHalfMD4 == 1
HashVersionTEA == 2
HashVersionLegacyUnsigned == 3
HashVersionHalfMD4Unsigned == 4
HashVersionTEAUnsigned == 5
HashVersionSIP == 6

(* one round of the loop of TEATransform on sum, b0 and b1; n counts the   *)
(* rounds still to run                                                     *)
teaRound(st, in) ==
  With(Add32(st.sum, teaDelta), LAMBDA s :
  With(Add32(st.b0, Xor32(Xor32(Add32(Shl32(st.b1, 4), in[1]), Add32(st.b1, s)),
                          Add32(Shr32(st.b1, 5), in[2]))), LAMBDA n0 :
    [n |-> st.n - 1, sum |-> s, b0 |-> n0,
     b1 |-> Add32(st.b1, Xor32(Xor32(Add32(Shl32(n0, 4), in[3]), Add32(n0, s)),
                               Add32(Shr32(n0, 5), in[4])))]))

RECURSIVE teaRounds(_, _)
teaRounds(st, in) == IF st.n = 0 THEN st ELSE teaRounds(teaRound(st, in), in)

TEATransform(buf, in) ==
  With(teaRounds([n |-> 16, sum |-> W(0, 0), b0 |-> buf[1], b1 |-> buf[2]], in), LAMBDA r :
    <<Add32(buf[1], r.b0), Add32(buf[2], r.b1), buf[3], buf[4]>>)

rol32(word, shift) == Or32(Shl32(word, shift % 32), Shr32(word, (32 - shift) % 32))

(* the basic MD4 functions f, g and h: selection, majority, parity *)
md4F(x, y, z) == Xor32(z, And32(x, Xor32(y, z)))
md4G(x, y, z) == Add32(And32(x, y), And32(Xor32(x, y), z))
md4H(x, y, z) == Xor32(Xor32(x, y), z)

round(fn, a, b, c, d, x, s) ==
  rol32(Add32(Add32(a, IF fn = "f" THEN md4F(b, c, d)
                       ELSE IF fn = "g" THEN md4G(b, c, d)
                       ELSE md4H(b, c, d)), x), s)

(* the 24 calls of round in halfMD4Transform, in order: the function, the  *)
(* index of the input word, the constant added to it and the rotation      *)
md4Calls ==
  [i \in 1..8 |-> [fn |-> "f", x |-> i - 1, k |-> k1, s |-> <<3, 7, 11, 19>>[((i - 1) % 4) + 1]]]
  \o [i \in 1..8 |-> [fn |-> "g", x |-> <<1, 3, 5, 7, 0, 2, 4, 6>>[i], k |-> k2,
                      s |-> <<3, 5, 9, 13>>[((i - 1) % 4) + 1]]]
  \o [i \in 1..8 |-> [fn |-> "h", x |-> <<3, 7, 2, 6, 1, 5, 0, 4>>[i], k |-> k3,
                      s |-> <<3, 9, 11, 15>>[((i - 1) % 4) + 1]]]

(* call i assigns the first of the four registers handed to it, which the  *)
(* next call takes as its second: a, d, c, b in turn                       *)
RECURSIVE md4Rounds(_, _)
md4Rounds(st, in) ==
  IF st.i > Len(md4Calls) THEN st
  ELSE md4Rounds([i |-> st.i + 1, a |-> st.d,
                  b |-> round(md4Calls[st.i].fn, st.a, st.b, st.c, st.d,
                              Add32(in[md4Calls[st.i].x + 1], md4Calls[st.i].k),
                              md4Calls[st.i].s),
                  c |-> st.b, d |-> st.c], in)

halfMD4Transform(buf, in) ==
  With(md4Rounds([i |-> 1, a |-> buf[1], b |-> buf[2], c |-> buf[3], d |-> buf[4]], in),
       LAMBDA r :
    <<Add32(buf[1], r.a), Add32(buf[2], r.b), Add32(buf[3], r.c), Add32(buf[4], r.d)>>)

(* int(int8(x)) or int(uint8(x)) of a byte *)
charOf(x, signed) == IF signed /\ x >= 128 THEN x - 256 ELSE x

(* the loop of dxHackHash, from the last byte of the name to the first; i  *)
(* is the number of bytes still to hash                                    *)
RECURSIVE dxHackLoop(_, _, _)
dxHackLoop(b, st, signed) ==
  IF st.i = 0 THEN st.hash0
  ELSE
  With(Add32(st.hash1, Xor32(st.hash0, ToWord(charOf(b[st.i], signed) * 7152373))),
       LAMBDA hash :
    dxHackLoop(b, [i |-> st.i - 1,
                   hash0 |-> IF Hi(hash) >= 32768 THEN Sub32(hash, W(32767, 65535))
                             ELSE hash,
                   hash1 |-> st.hash0], signed))

(* dxHackHash: the old legacy hash *)
dxHackHash(name, signed) ==
  Shl32(dxHackLoop(name, [i |-> Len(name), hash0 |-> W(4771, 65069),
                          hash1 |-> W(14251, 59641)], signed), 1)

(* the first loop of str2hashbuf over the bytes 0..size-1 of msg; i is the *)
(* 0-based byte, j the 0-based word to store next                          *)
RECURSIVE str2hashbufLoop(_, _, _, _, _)
str2hashbufLoop(b, size, pad, signed, st) ==
  IF st.i >= size THEN st
  ELSE
  With(Add32(ToWord(charOf(b[st.i + 1], signed)), Shl32(st.val, 8)), LAMBDA v :
    IF st.i % 4 = 3
    THEN str2hashbufLoop(b, size, pad, signed,
           [i |-> st.i + 1, buf |-> [st.buf EXCEPT ![st.j + 1] = v], val |-> pad,
            num |-> st.num - 1, j |-> st.j + 1])
    ELSE str2hashbufLoop(b, size, pad, signed,
           [i |-> st.i + 1, buf |-> st.buf, val |-> v, num |-> st.num, j |-> st.j]))

(* str2hashbuf: up to num words of msg, padded with its length *)
str2hashbuf(msg, num, signed) ==
  With(Or32(Or32(ToWord(Len(msg)), Shl32(ToWord(Len(msg)), 8)),
            Shl32(Or32(ToWord(Len(msg)), Shl32(ToWord(Len(msg)), 8)), 16)), LAMBDA pad :
  With(str2hashbufLoop(msg, Min(Len(msg), num * 4), pad, signed,
                       [i |-> 0, buf |-> <<W(0, 0), W(0, 0), W(0, 0), W(0, 0),
                                           W(0, 0), W(0, 0), W(0, 0), W(0, 0)>>,
                        val |-> pad, num |-> num, j |-> 0]), LAMBDA l :
    [k \in 1..8 |->
       IF k <= l.j THEN l.buf[k]
       ELSE IF l.num - 1 >= 0 /\ k = l.j + 1 THEN l.val
       ELSE IF l.num - 1 >= 0 /\ k <= l.j + l.num THEN pad
       ELSE W(0, 0)]))

(* the seed words that are not zero replace the default ones; a word of    *)
(* the seed past the fourth that is not zero indexes past the array        *)
seededBuf(seed) ==
  IF \E i \in 1..Len(seed) : i > 4 /\ seed[i] # W(0, 0)
  THEN [err |-> ErrPanic, buf |-> <<>>]
  ELSE [err |-> NoErr,
        buf |-> [i \in 1..4 |->
                   IF i <= Len(seed) /\ seed[i] # W(0, 0) THEN seed[i]
                   ELSE <<W(26437, 8961), W(61389, 43913), W(39098, 56574),
                          W(4146, 21622)>>[i]]]

(* the loops of ext4fsDirhash over the name, 32 or 16 bytes at a time *)
RECURSIVE md4Chunks(_, _, _, _)
md4Chunks(name, i, buf, signed) ==
  IF i >= Len(name) THEN buf
  ELSE md4Chunks(name, i + 32,
                 halfMD4Transform(buf, str2hashbuf(SubSeq(name, i + 1, Len(name)), 8, signed)),
                 signed)

RECURSIVE teaChunks(_, _, _, _)
teaChunks(name, i, buf, signed) ==
  IF i >= Len(name) THEN buf
  ELSE teaChunks(name, i + 16,
                 TEATransform(buf, str2hashbuf(SubSeq(name, i + 1, Len(name)), 4, signed)),
                 signed)

(* the end of ext4fsDirhash without the test for the end-of-file value *)
evenHashOnly(hash) == And32(hash, Not32(W(0, 1)))

(* the end of ext4fsDirhash: the low bit is cleared and the value that     *)
(* marks the end of a directory is moved off by one                        *)
evenHash(hash) ==
  IF And32(hash, Not32(W(0, 1))) = Shl32(ext4HtreeEOF32, 1)
  THEN Shl32(Sub32(ext4HtreeEOF32, W(0, 1)), 1)
  ELSE And32(hash, Not32(W(0, 1)))

(* what the switch of ext4fsDirhash leaves in hash and minorHash *)
rawDirhash(name, version, buf) ==
  IF version = HashVersionLegacyUnsigned
  THEN [hash |-> dxHackHash(name, FALSE), minorHash |-> W(0, 0)]
  ELSE IF version = HashVersionLegacy
  THEN [hash |-> dxHackHash(name, TRUE), minorHash |-> W(0, 0)]
  ELSE IF version \in {HashVersionHalfMD4Unsigned, HashVersionHalfMD4}
  THEN With(md4Chunks(name, 0, buf, version = HashVersionHalfMD4), LAMBDA r :
         [hash |-> r[2], minorHash |-> r[3]])
  ELSE With(teaChunks(name, 0, buf, version = HashVersionTEA), LAMBDA r :
         [hash |-> r[1], minorHash |-> r[2]])

ext4fsDirhash(name, version, seed) ==
  With(seededBuf(seed), LAMBDA sd :
    IF sd.err # NoErr THEN [err |-> ErrPanic, hash |-> W(0, 0), minorHash |-> W(0, 0)]
    ELSE IF version \notin {HashVersionLegacyUnsigned, HashVersionLegacy,
                            HashVersionHalfMD4Unsigned, HashVersionHalfMD4,
                            HashVersionTEAUnsigned, HashVersionTEA}
    THEN [err |-> NoErr, hash |-> W(0, 0), minorHash |-> W(0, 0)]
    ELSE With(rawDirhash(name, version, sd.buf), LAMBDA r :
           [err |-> NoErr, raw |-> r.hash, hash |-> evenHash(r.hash),
            minorHash |-> r.minorHash]))

(* names of 0 to 33 bytes, some with bytes of 128 and more, and seeds      *)
(* that are absent, all zero, partly zero, or longer than the four words   *)
(* of the superblock's hash seed                                           *)
HashNames ==
  { <<>>, <<97>>, <<97, 98, 99>>, <<200>>, <<255, 128, 65, 66, 67>>,
    [k \in 1..17 |-> 97 + (k % 7)],
    [k \in 1..33 |-> 120 + 9 * (k % 11)] }

HashVersions == HashVersionLegacy..HashVersionSIP

HashSeeds ==
  { <<>>,
    <<W(0, 0), W(0, 0), W(0, 0), W(0, 0)>>,
    <<W(0, 1), W(0, 2), W(0, 3), W(0, 4)>>,
    <<W(65535, 65535), W(0, 0), W(0, 0), W(0, 0)>>,
    <<W(0, 0), W(65535, 65534), W(0, 0), W(0, 0)>>,
    <<W(65535, 65534), W(65535, 65535), W(0, 5), W(0, 6)>>,
    <<W(0, 1), W(0, 2), W(0, 3), W(0, 4), W(0, 0)>>,
    <<W(0, 1), W(0, 2), W(0, 3), W(0, 4), W(0, 5)>> }

(* a name, a version and a seed are chosen, then hashed once *)
HashInit ==
  /\ device = Image(0, TRUE, FALSE)
  /\ writes = <<>>
  /\ fs = NoFS
  /\ file = NoFile
  /\ hist = NoHist
  /\ res \in {[op |-> "name", name |-> name, version |-> version, seed |-> seed] :
                name \in HashNames, version \in HashVersions, seed \in HashSeeds}
  /\ mutex = 0
  /\ calls = NoCalls

(* ext4fsDirhash(name, version, seed) *)
DoDirhash ==
  /\ res.op = "name"
  /\ res' = [op |-> "ext4fsDirhash", name |-> res.name, version |-> res.version,
             seed |-> res.seed]
             @@ ext4fsDirhash(res.name, res.version, res.seed)
  /\ UNCHANGED <<device, writes, fs, file, hist, mutex, calls>>

HashNext == DoDirhash

HashSpec == HashInit /\ [][HashNext]_vars

----------------------------------------------------------------------------
(* superblockFromBytes on buffers of every kind *)

(* the buffers handed in: of 1024 bytes and of other lengths, with and     *)
(* without the magic, with checksum types 0, 1 and 2, with and without     *)
(* metadata checksums.  computedChecksum is crc32.Checksum(b[0:0x3fe]),    *)
(* checksumOver1020 the CRC-32C of b[0:0x3fc]; the stored checksum is one  *)
(* of the two or neither.                                                  *)
SuperblockLengths == {SuperblockSize, SuperblockSize - 1, SectorSize512}

SuperblockBuffers ==
  {[len |-> n,
    cell |-> [checksumOver1020 |-> over1020]
             @@ [SuperblockCell(TRUE) EXCEPT
                   !.magic = magic,
                   !.checksumType = type,
                   !.features = IF meta THEN @ \cup {"metadataChecksums"} ELSE @,
                   !.computedChecksum = 11,
                   !.checksum = stored]] :
     n \in SuperblockLengths, magic \in {superblockSignature, 0}, type \in 0..2,
     meta \in BOOLEAN, over1020 \in {11, 22}, stored \in {11, 22, 5}}

SuperInit ==
  /\ device = Image(0, TRUE, FALSE)
  /\ writes = <<>>
  /\ fs = NoFS
  /\ file = NoFile
  /\ hist = NoHist
  /\ res \in {[op |-> "bytes", b |-> b] : b \in SuperblockBuffers}
  /\ mutex = 0
  /\ calls = NoCalls

(* superblockFromBytes(b) *)
DoSuperblockFromBytes ==
  /\ res.op = "bytes"
  /\ res' = [op |-> "superblockFromBytes", b |-> res.b] @@ superblockFromBytes(res.b)
  /\ UNCHANGED <<device, writes, fs, file, hist, mutex, calls>>

SuperNext == DoSuperblockFromBytes

SuperSpec == SuperInit /\ [][SuperNext]_vars

----------------------------------------------------------------------------
(* groupDescriptorFromBytes on records given by their bytes *)

DescriptorFeatures == SUBSET {"metadataChecksums", "gdtChecksum", "fs64Bit"}

DescriptorSuperblock(features) ==
  [features |-> features, checksumSeed |-> 7, uuid |-> <<9>>]

(* records of 32 and of 64 bytes *)
DescriptorBytes ==
  {[head |-> <<1>>, tail |-> <<>>, len |-> 32, inodeTableLocation |-> 3],
   [head |-> <<1>>, tail |-> <<3>>, len |-> 64, inodeTableLocation |-> 3]}

(* what the checksum slot may hold: the value of either algorithm over the *)
(* record with and without its second half, for this group and for the     *)
(* next, and the CRC-32C taken over the slot as stored                     *)
StoredChecksums(rec, group) ==
  {groupDescriptorChecksumOfBytes(r, DescriptorSuperblock(f), g) :
     r \in {rec, [rec EXCEPT !.len = 32]},
     f \in {{"metadataChecksums"}, {"gdtChecksum"}, {"gdtChecksum", "fs64Bit"}},
     g \in {group, group + 1}}
  \cup {crc32c_update(crc32c_update_u32(Crc("crc32c", 7, 16), group), rec.head)}

GdInit ==
  /\ device = Image(0, TRUE, FALSE)
  /\ writes = <<>>
  /\ fs = NoFS
  /\ file = NoFile
  /\ hist = NoHist
  /\ res \in {[op |-> "record", features |-> f, group |-> g,
               rec |-> [checksum |-> c] @@ r] :
                f \in DescriptorFeatures, g \in 0..1,
                r \in DescriptorBytes,
                c \in UNION {StoredChecksums(x, y) : x \in DescriptorBytes, y \in 0..1}}
  /\ mutex = 0
  /\ calls = NoCalls

(* groupDescriptorFromBytes(b, sb, blockGroupNumber) *)
DoGroupDescriptorFromBytes ==
  /\ res.op = "record"
  /\ res' = [op |-> "groupDescriptorFromBytes", features |-> res.features,
             group |-> res.group, rec |-> res.rec]
             @@ groupDescriptorFromBytes(res.rec, DescriptorSuperblock(res.features), res.group)
  /\ UNCHANGED <<device, writes, fs, file, hist, mutex, calls>>

GdNext == DoGroupDescriptorFromBytes

GdSpec == GdInit /\ [][GdNext]_vars

----------------------------------------------------------------------------
(* parseDirEntries on directory buffers made of up to MaxRecords pieces    *)

MaxRecords == 3

(* a record whose rec_len field, or whose name_len field, says otherwise   *)
Relabelled(rec, recLen) ==
  [k \in 1..Len(rec) |-> IF k = 5 THEN recLen % 256
                         ELSE IF k = 6 THEN recLen \div 256 ELSE rec[k]]

Renamed(rec, nameLen) == [k \in 1..Len(rec) |-> IF k = 7 THEN nameLen ELSE rec[k]]

(* the pieces: entries of 12 and 16 bytes, records without inode of 12 and *)
(* 20 bytes, a tombstone, "." and "..", file types 8, 9 and 200, a record  *)
(* that claims 24 bytes and has 12, records that claim 8 and 0 bytes, a    *)
(* name longer than its record, and four bytes short of a record           *)
DirRecords ==
  {DirRec(3, 12, 1, NameF), DirRec(4, 16, 2, NameD),
   DirRec(0, 12, 0, NameX), DirRec(0, 20, 7, <<>>),
   DirRec(7, 12, tombstoneFileType, <<>>),
   DirRec(2, 12, 2, NameDot), DirRec(2, 12, 2, NameDotDot),
   DirRec(3, 12, 8, NameF), DirRec(3, 12, 9, NameF), DirRec(3, 12, 200, NameF),
   Relabelled(DirRec(3, 12, 1, NameF), 24),
   Relabelled(DirRec(3, 12, 1, NameF), 8),
   Relabelled(DirRec(0, 12, 0, NameX), 0),
   Renamed(DirRec(3, 12, 1, NameF), 6),
   Zeros(4)}

RECURSIVE BuffersOf(_)
BuffersOf(n) ==
  IF n = 0 THEN {<<>>} ELSE {b \o r : b \in BuffersOf(n - 1), r \in DirRecords}

DirBuffers == UNION {BuffersOf(n) : n \in 0..MaxRecords}

(* the one field of the superblock the parsers read *)
DirSuperblock(withFt) ==
  [features |-> IF withFt THEN {"directoryEntriesRecordFileType"} ELSE {}]

DirInit ==
  /\ device = Image(0, TRUE, FALSE)
  /\ writes = <<>>
  /\ fs = NoFS
  /\ file = NoFile
  /\ hist = NoHist
  /\ res \in {[op |-> "buffer", withFt |-> w, buf |-> b] : w \in BOOLEAN, b \in DirBuffers}
  /\ mutex = 0
  /\ calls = NoCalls

(* parseDirEntries(sb, b, fs) *)
DoParseDirEntries ==
  /\ res.op = "buffer"
  /\ res' = [op |-> "parseDirEntries", withFt |-> res.withFt, buf |-> res.buf]
             @@ parseDirEntries(DirSuperblock(res.withFt), res.buf)
  /\ UNCHANGED <<device, writes, fs, file, hist, mutex, calls>>

DirNext == DoParseDirEntries

DirSpec == DirInit /\ [][DirNext]_vars

----------------------------------------------------------------------------
(* Goroutines calling getExtents on one inode.  Each goroutine runs the    *)
(* statements of getExtents one at a time; mutex is the goroutine inside   *)
(* in.m, 0 when nobody is.                                                 *)

NumCallers == 2
MaxCalls == 2

Callers == 1..NumCallers

(* inodes whose extent trees flatten: an index node without entries, a     *)
(* leaf, and trees of depth 1 and 2                                        *)
SharedInodes == {1, 3, 5, 9}

Idle == [pc |-> "idle", n |-> 0, late |-> FALSE, extents |-> <<>>, ret |-> <<>>,
         err |-> NoErr, reads |-> <<>>, flattens |-> 0, returned |-> 0]

(* a Lock that never waits *)
lockNeverWaits(m) == m \in 0..NumCallers

(* in.m.Lock() goes through when nobody holds the mutex *)
lockFree(m) == m = 0

GoInit ==
  /\ device \in {TreeImage(0), TreeImage(32768)}
  /\ writes = <<>>
  /\ fs = ReadFS(device, Ext4MinSize, device.size - 18 * 1024, 0).fs
  /\ file \in {[open |-> TRUE, inode |-> readInode(device, fs, n).inode] : n \in SharedInodes}
  /\ hist = NoHist
  /\ res = NoRes
  /\ mutex = 0
  /\ calls = [c \in Callers |-> Idle]

(* a goroutine calls getExtents(in); late records whether the cache was    *)
(* populated by then                                                       *)
GoCall(c) ==
  /\ calls[c].pc = "idle"
  /\ calls[c].n < MaxCalls
  /\ calls' = [calls EXCEPT ![c] = [@ EXCEPT !.pc = "lock", !.n = @ + 1,
                                            !.late = file.inode.extents.cached,
                                            !.extents = <<>>, !.reads = <<>>,
                                            !.ret = <<>>, !.err = NoErr]]
  /\ UNCHANGED <<device, writes, fs, file, hist, res, mutex>>

(* in.m.Lock(); defer in.m.Unlock() *)
GoLock(c) ==
  /\ calls[c].pc = "lock"
  /\ lockFree(mutex)
  /\ mutex' = c
  /\ calls' = [calls EXCEPT ![c].pc = "check"]
  /\ UNCHANGED <<device, writes, fs, file, hist, res>>

(* if in.extents != nil { return in.extents, nil } *)
GoCheck(c) ==
  /\ calls[c].pc = "check"
  /\ IF file.inode.extents.cached
     THEN /\ calls' = [calls EXCEPT ![c] = [@ EXCEPT !.pc = "idle",
                                                    !.ret = file.inode.extents.list,
                                                    !.returned = @ + 1]]
          /\ mutex' = 0
     ELSE /\ calls' = [calls EXCEPT ![c].pc = "flatten"]
          /\ UNCHANGED mutex
  /\ UNCHANGED <<device, writes, fs, file, hist, res>>

(* a flatten whose failure is kept on the inode as an empty vector *)
GoFlattenMemoising(c) ==
  /\ calls[c].pc = "flatten"
  /\ IF flattenExtentTree(device, fs, file.inode.extentTree).err # NoErr
     THEN /\ calls' = [calls EXCEPT ![c] =
                         [@ EXCEPT !.pc = "idle",
                                   !.err = flattenExtentTree(device, fs, file.inode.extentTree).err,
                                   !.reads = flattenExtentTree(device, fs, file.inode.extentTree).reads,
                                   !.flattens = @ + 1,
                                   !.returned = @ + 1]]
          /\ file' = [file EXCEPT !.inode.extents = [cached |-> TRUE, list |-> <<>>]]
          /\ mutex' = 0
     ELSE /\ calls' = [calls EXCEPT ![c] =
                         [@ EXCEPT !.pc = "store",
                                   !.extents = flattenExtentTree(device, fs, file.inode.extentTree).extents,
                                   !.reads = flattenExtentTree(device, fs, file.inode.extentTree).reads,
                                   !.flattens = @ + 1]]
          /\ UNCHANGED <<mutex, file>>
  /\ UNCHANGED <<device, writes, fs, hist, res>>

(* extents, err := flattenExtentTree(fs, in.extentTree); if err != nil     *)
(* { return nil, err }                                                     *)
GoFlatten(c) ==
  /\ calls[c].pc = "flatten"
  /\ IF flattenExtentTree(device, fs, file.inode.extentTree).err # NoErr
     THEN /\ calls' = [calls EXCEPT ![c] =
                         [@ EXCEPT !.pc = "idle",
                                   !.err = flattenExtentTree(device, fs, file.inode.extentTree).err,
                                   !.reads = flattenExtentTree(device, fs, file.inode.extentTree).reads,
                                   !.flattens = @ + 1,
                                   !.returned = @ + 1]]
          /\ mutex' = 0
     ELSE /\ calls' = [calls EXCEPT ![c] =
                         [@ EXCEPT !.pc = "store",
                                   !.extents = flattenExtentTree(device, fs, file.inode.extentTree).extents,
                                   !.reads = flattenExtentTree(device, fs, file.inode.extentTree).reads,
                                   !.flattens = @ + 1]]
          /\ UNCHANGED mutex
  /\ UNCHANGED <<device, writes, fs, file, hist, res>>

(* if extents == nil { extents = []extent{} }; in.extents = extents;       *)
(* return extents, nil                                                     *)
GoStore(c) ==
  /\ calls[c].pc = "store"
  /\ file' = [file EXCEPT !.inode.extents = [cached |-> TRUE, list |-> calls[c].extents]]
  /\ calls' = [calls EXCEPT ![c] = [@ EXCEPT !.pc = "idle", !.ret = calls[c].extents,
                                            !.returned = @ + 1]]
  /\ mutex' = 0
  /\ UNCHANGED <<device, writes, fs, hist, res>>

GoNext ==
  \E c \in Callers :
    \/ GoCall(c)
    \/ GoLock(c)
    \/ GoCheck(c)
    \/ GoFlatten(c)
    \/ GoStore(c)

GoSpec == GoInit /\ [][GoNext]_vars

(* inodes whose extent trees do not flatten: a child of the depth of its   *)
(* parent, and a second child that is an index node without entries where  *)
(* leaves are expected                                                     *)
FailingInodes == {8, 10}

(* the same goroutines on an inode of either kind *)
GoAnyInit ==
  /\ device \in {TreeImage(0), TreeImage(32768)}
  /\ writes = <<>>
  /\ fs = ReadFS(device, Ext4MinSize, device.size - 18 * 1024, 0).fs
  /\ file \in {[open |-> TRUE, inode |-> readInode(device, fs, n).inode] :
                 n \in SharedInodes \cup FailingInodes}
  /\ hist = NoHist
  /\ res = NoRes
  /\ mutex = 0
  /\ calls = [c \in Callers |-> Idle]

GoAnySpec == GoAnyInit /\ [][GoNext]_vars

----------------------------------------------------------------------------
(* Goroutines reading one open image.  Each holds a File of its own and    *)
(* calls ReadDir, OpenFile and File.Read; a call issues its device reads   *)
(* one at a time, and the reads of different goroutines interleave.  file  *)
(* maps a handle to the File behind it.                                    *)

(* all goroutines on one File *)
sharedHandle(c) == 1

(* OpenFile hands every caller a File of its own *)
ownHandle(c) == c

Readers == {1, 2}

ReadDirOp(p) == [name |-> "ReadDir", path |-> p, len |-> 0]
OpenFileOp(p) == [name |-> "OpenFile", path |-> p, len |-> 0]
FileReadOp(n) == [name |-> "FileRead", path |-> <<>>, len |-> n]

(* what a goroutine does, call after call *)
Scripts ==
  {<<OpenFileOp(PathF), FileReadOp(1), FileReadOp(MaxBuf)>>,
   <<OpenFileOp(PathDG), FileReadOp(MaxBuf)>>,
   <<OpenFileOp(PathD), ReadDirOp(PathD)>>,
   <<ReadDirOp(<<Slash>>)>>,
   <<ReadDirOp(PathX)>>}

(* the call run from start to end on the device and the File as they are *)
Run(op, c) ==
  IF op.name = "ReadDir" THEN ReadDirFS(device, fs, op.path)
  ELSE IF op.name = "OpenFile" THEN OpenFileFS(device, fs, op.path, O_RDONLY)
  ELSE FileRead(device, fs, file[ownHandle(c)], op.len)

Resting(script) ==
  [pc |-> "idle", script |-> script, n |-> 0, op |-> <<>>, k |-> 0, mixed |-> FALSE,
   alone |-> <<>>, ret |-> <<>>, returned |-> FALSE]

ConInit ==
  /\ device \in {Image(0, TRUE, FALSE), Image(32768, TRUE, TRUE)}
  /\ writes = <<>>
  /\ fs = ReadFS(device, Ext4MinSize, device.size - 18 * 1024, 0).fs
  /\ file = [c \in Readers |-> NoFile]
  /\ hist = NoHist
  /\ res = NoRes
  /\ mutex = 0
  /\ calls \in [Readers -> {Resting(script) : script \in Scripts}]

(* a goroutine enters ReadDir, OpenFile or File.Read; alone is what the    *)
(* call returns when nothing else runs until it has returned               *)
ConCall(c) ==
  /\ calls[c].pc = "idle"
  /\ calls[c].n < Len(calls[c].script)
  /\ calls[c].script[calls[c].n + 1].name = "FileRead" => file[ownHandle(c)].open
  /\ calls' = [calls EXCEPT ![c] =
                 [@ EXCEPT !.pc = "running", !.n = @ + 1,
                           !.op = calls[c].script[calls[c].n + 1],
                           !.k = 0, !.mixed = FALSE,
                           !.alone = Run(calls[c].script[calls[c].n + 1], c),
                           !.ret = <<>>, !.returned = FALSE]]
  /\ UNCHANGED <<device, writes, fs, file, hist, res, mutex>>

(* the next fs.file.ReadAt of the call *)
ConReadAt(c) ==
  /\ calls[c].pc = "running"
  /\ calls[c].k < Len(Run(calls[c].op, c).reads)
  /\ calls' = [calls EXCEPT ![c] =
                 [@ EXCEPT !.k = @ + 1,
                           !.mixed = @ \/ \E o \in Readers \ {c} :
                                            calls[o].pc = "running" /\ calls[o].k > 0]]
  /\ UNCHANGED <<device, writes, fs, file, hist, res, mutex>>

(* the call returns: an OpenFile that succeeds hands out a new File, a     *)
(* File.Read has advanced the offset of its File                           *)
ConReturn(c) ==
  /\ calls[c].pc = "running"
  /\ calls[c].k >= Len(Run(calls[c].op, c).reads)
  /\ calls' = [calls EXCEPT ![c] = [@ EXCEPT !.pc = "idle", !.ret = Run(calls[c].op, c),
                                            !.returned = TRUE]]
  /\ file' = IF calls[c].op.name = "ReadDir" \/ ~Run(calls[c].op, c).file.open
             THEN file
             ELSE [file EXCEPT ![ownHandle(c)] = Run(calls[c].op, c).file]
  /\ UNCHANGED <<device, writes, fs, hist, res, mutex>>

ConNext ==
  \E c \in Readers :
    \/ ConCall(c)
    \/ ConReadAt(c)
    \/ ConReturn(c)

ConSpec == ConInit /\ [][ConNext]_vars

----------------------------------------------------------------------------
(* flattenExtentTree call by call.  res.stack holds the calls in progress, *)
(* the innermost last: the node being flattened, the child the loop is at  *)
(* and the extents gathered so far.  res.entries counts the index entries  *)
(* of the nodes entered.                                                   *)

(* the tree image with child pointers that lead back: block 13 lists       *)
(* itself as its child; inode 10 claims depth 3 and leads to block 15,     *)
(* which leads to block 12, which leads to block 15 again                  *)
SelfLoopImage ==
  Patched(TreeImage(0), 13 * 1024, LAMBDA c : Node(IndexTree(1, <<Idx(0, 13)>>)))

TwoBlockLoopImage ==
  Patched(Patched(Patched(TreeImage(0),
                          17 * 1024 + 128,
                          LAMBDA c : [c EXCEPT !.extentTree = IndexTree(3, <<Idx(0, 15)>>)]),
                  15 * 1024, LAMBDA c : Node(IndexTree(2, <<Idx(0, 12)>>))),
          12 * 1024, LAMBDA c : Node(IndexTree(1, <<Idx(0, 15)>>)))

WalkDevices == {TreeImage(0), TreeImage(32768), SelfLoopImage, TwoBlockLoopImage}

(* a child of any depth is taken *)
childOfAnyDepth(et, t) == TRUE

(* if et.depth != t.depth-1 { return nil, ... } *)
childOfDepthBelow(et, t) == et.depth = t.depth - 1

Frame(t) == [tree |-> t, k |-> 1, extents |-> <<>>]

WalkInit ==
  /\ device \in WalkDevices
  /\ writes = <<>>
  /\ fs = ReadFS(device, Ext4MinSize, device.size - 18 * 1024, 0).fs
  /\ file = NoFile
  /\ hist = NoHist
  /\ res = NoRes
  /\ mutex = 0
  /\ calls = NoCalls

(* flattenExtentTree(fs, in.extentTree) is called on inode n *)
WalkStart(n) ==
  /\ res.op = "walk" => res.done
  /\ readInode(device, fs, n).err = NoErr
  /\ res' = [op |-> "walk", number |-> n,
             root |-> readInode(device, fs, n).inode.extentTree,
             stack |-> <<Frame(readInode(device, fs, n).inode.extentTree)>>,
             entries |-> Len(readInode(device, fs, n).inode.extentTree.children),
             reads |-> <<>>, err |-> NoErr, extents |-> <<>>, done |-> FALSE]
  /\ UNCHANGED <<device, writes, fs, file, hist, mutex, calls>>

(* what the innermost call does with its next child: reads the block,      *)
(* parses it, checks its depth and calls itself on it                      *)
WalkedChild(r) ==
  LET top == r.stack[Len(r.stack)]
      c == top.tree.children[top.k]
      rd == ReadAt(device, fs.start + c.eiLeaf * fs.superblock.blockSize,
                   fs.superblock.blockSize)
      et == parseExtentTree([len |-> rd.n, cell |-> CellAt(device, rd.off, "extent")])
      failed(e) == [r EXCEPT !.reads = Append(@, IO(rd)), !.err = e, !.stack = <<>>,
                             !.done = TRUE]
  IN
  IF rd.err THEN failed("extent child read error")
  ELSE IF et.err = ErrPanic THEN failed(ErrPanic)
  ELSE IF et.err # NoErr THEN failed("extent child parse error")
  ELSE IF ~childOfDepthBelow(et.tree, top.tree) THEN failed("wrong extent child data")
  ELSE [r EXCEPT !.reads = Append(@, IO(rd)),
                 !.stack = Append(@, Frame(et.tree)),
                 !.entries = @ + Len(et.tree.children)]

WalkChild ==
  /\ res.op = "walk"
  /\ ~res.done
  /\ res.stack[Len(res.stack)].tree.depth # 0
  /\ res.stack[Len(res.stack)].k <= Len(res.stack[Len(res.stack)].tree.children)
  /\ res' = WalkedChild(res)
  /\ UNCHANGED <<device, writes, fs, file, hist, mutex, calls>>

(* what the innermost call returns: the extents of a leaf, or what the     *)
(* loop has gathered; the caller appends them and goes on to its next child *)
Returned(r) ==
  LET top == r.stack[Len(r.stack)]
      out == IF top.tree.depth = 0 THEN top.tree.extents ELSE top.extents
      n == Len(r.stack)
  IN
  IF n = 1 THEN [r EXCEPT !.stack = <<>>, !.extents = out, !.done = TRUE]
  ELSE [r EXCEPT !.stack = [SubSeq(r.stack, 1, n - 1) EXCEPT
                              ![n - 1] = [@ EXCEPT !.k = @ + 1,
                                                   !.extents = @ \o out]]]

WalkReturn ==
  /\ res.op = "walk"
  /\ ~res.done
  /\ \/ res.stack[Len(res.stack)].tree.depth = 0
     \/ res.stack[Len(res.stack)].k > Len(res.stack[Len(res.stack)].tree.children)
  /\ res' = Returned(res)
  /\ UNCHANGED <<device, writes, fs, file, hist, mutex, calls>>

WalkNext ==
  \/ \E n \in TreeInodes : WalkStart(n)
  \/ WalkChild
  \/ WalkReturn

(* a call that has been entered keeps running *)
WalkSpec == WalkInit /\ [][WalkNext]_vars /\ WF_vars(WalkChild \/ WalkReturn)

----------------------------------------------------------------------------
(* What the image at fs.start holds, read straight off its layout: every   *)
(* image address a is device offset fs.start + a.                          *)

(* the whole image lies on the device *)
Intact(dev, f) == f.start + 18 * 1024 <= dev.size

TrueInode(dev, f, n) ==
  CellAt(dev,
         f.start
           + f.groupDescriptors[((n - 1) \div f.superblock.inodesPerGroup) + 1].inodeTableLocation
               * f.superblock.blockSize
           + ((n - 1) % f.superblock.inodesPerGroup) * f.superblock.inodeSize,
         "inode")

TrueIsDir(c) == c.kind = "inode" /\ BitAnd(c.mode, 61440) = fileTypeDirectory

(* the bytes of the extents of a leaf tree, in file order, cut at left *)
RECURSIVE TrueContentFrom(_, _, _, _, _)
TrueContentFrom(dev, f, exts, k, left) ==
  IF k > Len(exts) \/ left = 0 THEN <<>>
  ELSE DevBytes(dev, f.start + exts[k].startingBlock * f.superblock.blockSize,
                Min(left, exts[k].count * f.superblock.blockSize))
       \o TrueContentFrom(dev, f, exts, k + 1,
                          left - Min(left, exts[k].count * f.superblock.blockSize))

TrueContent(dev, f, c) == TrueContentFrom(dev, f, c.extentTree.extents, 1, c.size)

(* the records of a directory body, each advanced over by its full length *)
RECURSIVE TrueRecordsFrom(_, _, _)
TrueRecordsFrom(body, i, withFt) ==
  IF i + 8 > Len(body) \/ Uint16(body, i + 4) < 8 THEN <<>>
  ELSE <<[inode |-> Uint32(body, i),
          name |-> Slice(body, i + 8,
                         i + 8 + (IF withFt THEN body[i + 7] ELSE Uint16(body, i + 6))),
          type |-> IF withFt THEN body[i + 8] ELSE 0,
          tombstone |-> withFt /\ body[i + 8] = tombstoneFileType]>>
       \o TrueRecordsFrom(body, i + Uint16(body, i + 4), withFt)

TrueRecords(dev, f, ino) ==
  TrueRecordsFrom(TrueContent(dev, f, TrueInode(dev, f, ino)), 0,
                  "directoryEntriesRecordFileType" \in f.superblock.features)

Live(r) == r.inode # 0 /\ ~r.tombstone

(* the inode the name leads to in the directory ino, 0 when there is none *)
RECURSIVE TrueLookupFrom(_, _, _)
TrueLookupFrom(recs, k, name) ==
  IF k > Len(recs) THEN 0
  ELSE IF Live(recs[k]) /\ recs[k].name = name THEN recs[k].inode
  ELSE TrueLookupFrom(recs, k + 1, name)

TrueLookup(dev, f, ino, name) == TrueLookupFrom(TrueRecords(dev, f, ino), 1, name)

NoEntry == [kind |-> "none", ino |-> 0]

RECURSIVE TrueResolve(_, _, _, _, _)
TrueResolve(dev, f, segs, k, ino) ==
  IF k > Len(segs)
  THEN [kind |-> IF TrueIsDir(TrueInode(dev, f, ino)) THEN "dir" ELSE "file", ino |-> ino]
  ELSE IF ~TrueIsDir(TrueInode(dev, f, ino)) THEN NoEntry
  ELSE With(TrueLookup(dev, f, ino, segs[k]), LAMBDA n :
         IF n = 0 THEN NoEntry ELSE TrueResolve(dev, f, segs, k + 1, n))

NonEmpty(seg) == seg # <<>>
Segments(p) == SelectSeq(Split(p), NonEmpty)

(* what a path names: a directory, a file or nothing *)
TrueEntry(dev, f, p) == TrueResolve(dev, f, Segments(p), 1, rootInodeNumber)

(* what the path without its last segment names *)
TrueParent(dev, f, p) ==
  TrueResolve(dev, f, SubSeq(Segments(p), 1, Len(Segments(p)) - 1), 1, rootInodeNumber)

Listable(r) == Live(r) /\ r.name # NameDot /\ r.name # NameDotDot

(* name, size and modification time of every listable record, in order *)
TrueListing(dev, f, ino) ==
  With(SelectSeq(TrueRecords(dev, f, ino), Listable), LAMBDA recs :
    [k \in 1..Len(recs) |->
       [name |-> recs[k].name,
        size |-> TrueInode(dev, f, recs[k].inode).size,
        modTime |-> <<TrueInode(dev, f, recs[k].inode).modificationTimeSeconds,
                      TrueInode(dev, f, recs[k].inode).modificationTimeNanoseconds>>]])

Listed(infos) ==
  [k \in 1..Len(infos) |->
     [name |-> infos[k].name, size |-> infos[k].size, modTime |-> infos[k].modTime]]

(* the size ReadDir of the parent reports for the entry a path names *)
RECURSIVE SizeOf(_, _, _)
SizeOf(infos, k, name) ==
  IF k > Len(infos) THEN -1
  ELSE IF infos[k].name = name THEN infos[k].size
  ELSE SizeOf(infos, k + 1, name)

ReadDirSize(dev, f, p) == SizeOf(ReadDirFS(dev, f, Dir(p)).infos, 1, Base(p))

----------------------------------------------------------------------------
(* Properties *)

(* C1: OpenFile(path, flags) fails with the write-not-supported error and  *)
(* returns no File for every flags value other than O_RDONLY, whatever the *)
(* path names.                                                             *)
C1_OpenFileRejectsEveryOtherFlag ==
  (res.op = "OpenFile" /\ res.flag # O_RDONLY)
    => (res.err = ErrWriteNotSupported /\ ~res.file.open)

C3_ReadsReturnTheContent ==
  (/\ res.op = "FileRead"
   /\ res.err = ErrEOF
   /\ file.open
   /\ hist.fromStart
   /\ Intact(device, fs))
    => (/\ hist.got = TrueContent(device, fs, TrueInode(device, fs, file.inode.number))
        /\ Len(hist.got) = file.inode.size
        /\ Len(hist.got) = ReadDirSize(device, fs, hist.path))

C5_Seek ==
  (res.op = "FileSeek" /\ res.whence \in {SeekStart, SeekCurrent, SeekEnd})
    => With(IF res.whence = SeekStart THEN res.offset
            ELSE IF res.whence = SeekCurrent THEN res.before + res.offset
            ELSE file.inode.size + res.offset,
            LAMBDA pos :
              IF pos < 0
              THEN res.err = ErrInvalidSeek /\ file.offset = res.before
              ELSE res.err = NoErr /\ file.offset = pos /\ res.ret = pos)

C5_SeekBeforeStartRefused ==
  /\ res.op = "FileSeek"
  /\ res.whence = SeekEnd
  /\ res.before > 0
  /\ res.err = ErrInvalidSeek
  /\ file.offset = res.before

(* C6: OpenFile(path, O_RDONLY) fails with IsADirectory when path is "/"   *)
(* or its last component names a directory, fails with NotFound when the   *)
(* parent directory has no entry of that name, and returns a File, at      *)
(* offset 0, only when the entry exists and is not a directory.            *)
C6_OpenFileByKind ==
  (/\ res.op = "OpenFile"
   /\ res.flag = O_RDONLY
   /\ res.path # <<>>
   /\ Intact(device, fs))
    => With(TrueEntry(device, fs, res.path), LAMBDA t :
         /\ (res.path = <<Slash>> \/ t.kind = "dir") => res.err = ErrIsADirectory
         /\ (t.kind = "none" /\ TrueParent(device, fs, res.path).kind = "dir")
              => res.err = ErrNotFound
         /\ res.file.open
              => (/\ t.kind = "file"
                  /\ res.file.offset = 0
                  /\ res.file.inode.number = t.ino))

(* C7: ReadDir(path) returns an error and no entries whenever a component  *)
(* of path does not exist or path names a regular file, on every image,    *)
(* with or without file types in its directory records.                    *)
C7_ReadDirOfNoDirectoryFails ==
  (/\ res.op = "ReadDir"
   /\ res.path # <<>>
   /\ Intact(device, fs)
   /\ TrueEntry(device, fs, res.path).kind \in {"none", "file"})
    => (res.err \notin {NoErr, ErrPanic} /\ res.infos = <<>>)

(* C8: ReadDir(path) returns exactly one FileInfo per directory record     *)
(* whose inode number is not 0, which is not the 0xDE tombstone and whose  *)
(* name is neither "." nor "..", in record order, each with the name of    *)
(* the record and the size and modification time of the inode it names.    *)
C8_ReadDirListsTheRecords ==
  (/\ res.op = "ReadDir"
   /\ res.path # <<>>
   /\ Intact(device, fs)
   /\ TrueEntry(device, fs, res.path).kind = "dir")
    => (/\ res.err = NoErr
        /\ Listed(res.infos)
             = TrueListing(device, fs, TrueEntry(device, fs, res.path).ino))

(* C9: Read fails with the unsupported-sector-size error, returns no       *)
(* filesystem and reads nothing from the device for every sectorsize other *)
(* than 0 and 512, negative ones included.                                 *)
C9_ReadRejectsOtherSectorSizes ==
  (res.op = "Read" /\ res.sectorsize \notin {0, SectorSize512})
    => (res.err = ErrSectorSize /\ ~res.fs.open /\ res.reads = <<>>)

(* the least g with g * per >= n *)
CeilDiv(n, per) == CHOOSE g \in 0..n : g * per >= n /\ (g = 0 \/ (g - 1) * per < n)

(* C10: a successful Read issues exactly three device reads, in order:     *)
(* 1024 bytes at start, 1024 bytes at start + 1024, then group-count times *)
(* group-descriptor-size bytes at start + 2048, with group-count =         *)
(* ceil((blockCount - firstDataBlock) / blocksPerGroup); one descriptor is *)
(* decoded per block group; and no Read reads at start + 2048 unless the   *)
(* superblock at start + 1024 was read before it and decodes.              *)
C10_ReadIssuesThreeReads ==
  res.op = "Read" =>
    With(CellAt(device, res.start + 1024, "superblock"), LAMBDA c :
      /\ res.err = NoErr =>
           With(CeilDiv(c.blockCount - c.firstDataBlock, c.blocksPerGroup), LAMBDA groups :
             /\ res.reads = << [off |-> res.start, len |-> 1024],
                               [off |-> res.start + 1024, len |-> 1024],
                               [off |-> res.start + 2048,
                                len |-> groups * (IF "fs64Bit" \in c.features
                                                  THEN c.groupDescriptorSize ELSE 32)] >>
             /\ Len(res.fs.groupDescriptors) = groups
             /\ \A k \in 1..groups : res.fs.groupDescriptors[k].blockGroupNumber = k - 1)
      /\ \A k \in 1..Len(res.reads) :
           res.reads[k].off = res.start + 2048
             => (/\ k = 3
                 /\ res.reads[2] = [off |-> res.start + 1024, len |-> 1024]
                 /\ c.kind = "superblock"
                 /\ c.magic = superblockSignature))

C10_ReadOpenedBehindAnotherImage ==
  /\ res.op = "Read"
  /\ res.err = NoErr
  /\ res.start > 0
  /\ Len(res.reads) = 3
  /\ Len(fs.groupDescriptors) = 3

(* the checksum the reader computes for a stored group descriptor *)
ComputedDescriptorChecksum(features, d) ==
  IF "metadataChecksums" \in features THEN d.crc32cChecksum ELSE d.crc16Checksum

(* C11: Read fails and returns no filesystem when metadata checksums are   *)
(* on and the stored superblock checksum differs from the computed one, or *)
(* when metadata or group-descriptor checksums are on and the stored       *)
(* checksum of any one group descriptor differs from the computed one; no  *)
(* part of the descriptor table is returned.                               *)
C11_ChecksumMismatchIsFatal ==
  res.op = "Read" =>
    With(CellAt(device, res.start + 1024, "superblock"), LAMBDA c :
    With(CellAt(device, res.start + 2048, "gdt"), LAMBDA g :
      (/\ c.kind = "superblock"
       /\ \/ /\ "metadataChecksums" \in c.features
             /\ c.checksum # c.computedChecksum
          \/ /\ c.features \cap {"metadataChecksums", "gdtChecksum"} # {}
             /\ g.kind = "gdt"
             /\ \E k \in 1..Len(g.descriptors) :
                  g.descriptors[k].checksum
                    # ComputedDescriptorChecksum(c.features, g.descriptors[k]))
        => (res.err # NoErr /\ res.fs = NoFS)))

C11_StaleDescriptorRefused ==
  /\ res.op = "Read"
  /\ res.err = ErrGDT
  /\ Len(res.reads) = 3
  /\ "metadataChecksums" \in CellAt(device, res.start + 1024, "superblock").features
  /\ CellAt(device, res.start + 1024, "superblock").checksum
       = CellAt(device, res.start + 1024, "superblock").computedChecksum

(* the device with every inode's stored checksum made equal to the         *)
(* computed one                                                            *)
Repaired(dev) ==
  [dev EXCEPT !.cells = [o \in DOMAIN dev.cells |->
     IF dev.cells[o].kind = "inode"
     THEN [dev.cells[o] EXCEPT !.checksum = dev.cells[o].computedChecksum]
     ELSE dev.cells[o]]]

(* C12: with metadata checksums on, an inode whose stored checksum differs *)
(* from the computed one decodes to the same fields as one whose checksum  *)
(* matches, so ReadDir and OpenFile return what they return on the device  *)
(* with the checksums put right.                                           *)
C12_InodeChecksumOnlyWarns ==
  /\ res.op = "ReadDir" =>
       With(ReadDirFS(Repaired(device), fs, res.path), LAMBDA r :
         res.err = r.err /\ res.cause = r.cause /\ res.infos = r.infos)
  /\ res.op = "OpenFile" =>
       With(OpenFileFS(Repaired(device), fs, res.path, res.flag), LAMBDA r :
         res.err = r.err /\ res.cause = r.cause /\ res.file = r.file)

C12_StaleInodeOpened ==
  /\ res.op = "OpenFile"
  /\ res.err = NoErr
  /\ res.file.open
  /\ "metadataChecksums" \in fs.superblock.features
  /\ TrueInode(device, fs, res.file.inode.number).checksum
       # TrueInode(device, fs, res.file.inode.number).computedChecksum

(* where and how much the bytes of a leaf tree's extents are read: extent  *)
(* after extent at its image address, until left bytes are read            *)
RECURSIVE TrueReadsFrom(_, _, _, _)
TrueReadsFrom(f, exts, k, left) ==
  IF k > Len(exts) \/ left = 0 THEN <<>>
  ELSE <<[off |-> f.start + exts[k].startingBlock * f.superblock.blockSize,
          len |-> Min(left, exts[k].count * f.superblock.blockSize)]>>
       \o TrueReadsFrom(f, exts, k + 1,
                        left - Min(left, exts[k].count * f.superblock.blockSize))

(* C13: every device read of every operation is at start + the address in  *)
(* the image: each read lies inside the image that begins at start, and    *)
(* the reads File.Read makes for the bytes of a file are those of its      *)
(* extents, each at start + startingBlock * blockSize.                     *)
C13_ReadsAtStartPlusAddress ==
  /\ res.op \in {"ReadDir", "OpenFile", "FileRead"} =>
       \A k \in 1..Len(res.reads) :
         /\ res.reads[k].off >= fs.start
         /\ res.reads[k].off < fs.start + fs.superblock.blockCount * fs.superblock.blockSize
  /\ res.op = "FileRead" =>
       With(TrueInode(device, fs, file.inode.number), LAMBDA c :
         c.kind = "inode" =>
           With(TrueReadsFrom(fs, c.extentTree.extents, 1, c.size), LAMBDA want :
             /\ Len(res.reads) <= Len(want)
             /\ \A k \in 1..Len(res.reads) : res.reads[k] = want[k]))

----------------------------------------------------------------------------
(* Short reads *)

(* a read the device answered with fewer bytes than it was asked for *)
CameBackShort(dev, io) == io.off >= 0 /\ io.len > 0 /\ io.off + io.len > dev.size

SomeReadShort == \E k \in DOMAIN res.reads : CameBackShort(device, res.reads[k])

(* C14: whenever a device read returns fewer bytes than requested, in      *)
(* Read (boot sector, superblock, descriptor table), in an inode read, in  *)
(* an extent-tree child block read or in an extent data read, the          *)
(* enclosing operation fails with an error and returns no result.          *)
C14_ShortReadsAreFatal ==
  /\ (res.op = "Read" /\ SomeReadShort) => (res.err # NoErr /\ ~res.fs.open)
  /\ (res.op = "readInode" /\ SomeReadShort) => (res.err # NoErr /\ res.inode = <<>>)
  /\ (res.op = "flattenExtentTree" /\ SomeReadShort)
       => (res.err # NoErr /\ res.extents = <<>>)
  /\ (res.op = "readFileBytes" /\ SomeReadShort) => (res.err # NoErr /\ res.data = <<>>)

----------------------------------------------------------------------------
(* Path resolution *)

(* the read that fetches inode n of the image *)
TrueInodeRead(f, n) ==
  [off |-> f.start
             + f.groupDescriptors[((n - 1) \div f.superblock.inodesPerGroup) + 1].inodeTableLocation
                 * f.superblock.blockSize
             + ((n - 1) % f.superblock.inodesPerGroup) * f.superblock.inodeSize,
   len |-> f.superblock.inodeSize]

(* the first live record called name, 0 when there is none *)
RECURSIVE TrueIndexFrom(_, _, _)
TrueIndexFrom(recs, k, name) ==
  IF k > Len(recs) THEN 0
  ELSE IF Live(recs[k]) /\ recs[k].name = name THEN k
  ELSE TrueIndexFrom(recs, k + 1, name)

(* resolution of the segments from segment k on, standing in directory ino *)
(* after the reads made so far: each segment is looked up in the body of   *)
(* the current directory, and the walk ends at the first segment that is   *)
(* missing or whose record is typed as something other than a directory    *)
RECURSIVE TruePath(_, _, _, _, _, _)
TruePath(dev, f, segs, k, ino, reads) ==
  IF k > Len(segs) THEN [outcome |-> "found", ino |-> ino, reads |-> reads]
  ELSE
  With(reads \o TrueReadsFrom(f, TrueInode(dev, f, ino).extentTree.extents, 1,
                              TrueInode(dev, f, ino).size), LAMBDA rs :
  With(TrueRecords(dev, f, ino), LAMBDA recs :
  With(TrueIndexFrom(recs, 1, segs[k]), LAMBDA j :
    IF j = 0 THEN [outcome |-> "NotFound", ino |-> 0, reads |-> rs]
    ELSE IF recs[j].type \notin {0, 2}
    THEN [outcome |-> "NotADirectory", ino |-> 0,
          reads |-> Append(rs, TrueInodeRead(f, recs[j].inode))]
    ELSE TruePath(dev, f, segs, k + 1, recs[j].inode,
                  Append(rs, TrueInodeRead(f, recs[j].inode))))))

(* C15: path resolution starts at inode 2 (returned directly for "/"),     *)
(* ignores empty segments, and for each remaining segment in order looks   *)
(* the name up in the current directory body: it fails with NotFound if no *)
(* entry matches, fails with NotADirectory if a segment's entry has a file *)
(* type that is neither unknown nor directory, and after a failure         *)
(* resolves no further segment (it reads nothing more).                    *)
C15_PathResolution ==
  (res.op = "ReadDir" /\ Intact(device, fs)) =>
    With(TruePath(device, fs, Segments(res.path), 1, rootInodeNumber,
                  <<TrueInodeRead(fs, rootInodeNumber)>>), LAMBDA w :
    With(findDirInode(device, fs, res.path), LAMBDA got :
      /\ got.reads = w.reads
      /\ w.outcome = "found" => (got.err = NoErr /\ got.inode.number = w.ino)
      /\ w.outcome = "NotFound"
           => (got.err = ErrDoesNotExist /\ got.inode = <<>> /\ res.err # NoErr)
      /\ w.outcome = "NotADirectory"
           => (got.err = ErrNotADirectory /\ got.inode = <<>> /\ res.err # NoErr)))

----------------------------------------------------------------------------
(* Directory hashes *)

(* C16: for each of the six hash versions (legacy, half-MD4, TEA and their *)
(* unsigned variants), every name and every seed, the hash ext4fsDirhash   *)
(* returns has its low bit equal to 0 and is never EOF32 << 1 (0xFFFFFFFE, *)
(* with EOF32 = 2^31 - 1): a raw value that masks to EOF32 << 1 is         *)
(* returned as (EOF32 - 1) << 1 (0xFFFFFFFC).                              *)
C16_HashIsEvenAndNeverEOF ==
  (res.op = "ext4fsDirhash" /\ res.err = NoErr /\ res.version # HashVersionSIP) =>
    /\ Lo(res.hash) % 2 = 0
    /\ res.hash # W(65535, 65534)
    /\ (Hi(res.raw) = 65535 /\ Lo(res.raw) \in {65534, 65535}) => res.hash = W(65535, 65532)
    /\ ~(Hi(res.raw) = 65535 /\ Lo(res.raw) \in {65534, 65535})
         => res.hash = W(Hi(res.raw), Lo(res.raw) - (Lo(res.raw) % 2))

(* a raw hash of 0xFFFFFFFF, straight from the seed, comes back 0xFFFFFFFC *)
C16_EOFValueMoved ==
  /\ res.op = "ext4fsDirhash"
  /\ res.err = NoErr
  /\ res.version \in {HashVersionTEA, HashVersionTEAUnsigned}
  /\ res.raw = W(65535, 65535)
  /\ res.hash = W(65535, 65532)

----------------------------------------------------------------------------
(* The bytes of a file *)

(* the reads that fill a buffer of left bytes from the extents k, k+1, ... *)
(* in order: min(count * blockSize, left) bytes of each, none once the     *)
(* buffer is full                                                          *)
RECURSIVE WantReads(_, _, _, _)
WantReads(f, exts, k, left) ==
  IF k > Len(exts) \/ left = 0 THEN <<>>
  ELSE <<[off |-> exts[k].startingBlock * f.superblock.blockSize,
          len |-> Min(exts[k].count * f.superblock.blockSize, left)]>>
       \o WantReads(f, exts, k + 1,
                    left - Min(exts[k].count * f.superblock.blockSize, left))

RECURSIVE SumLens(_, _)
SumLens(reads, k) == IF k > Len(reads) THEN 0 ELSE reads[k].len + SumLens(reads, k + 1)

(* the bytes the device holds where the reads are made, one read after the *)
(* other                                                                   *)
RECURSIVE BytesOf(_, _, _)
BytesOf(dev, reads, k) ==
  IF k > Len(reads) THEN <<>>
  ELSE DevBytes(dev, reads[k].off, reads[k].len) \o BytesOf(dev, reads, k + 1)

AllInside(dev, reads) == \A k \in DOMAIN reads : reads[k].off + reads[k].len <= dev.size

(* C17: readFileBytes returns on success a buffer whose length equals      *)
(* inode.size, filled by reading, for each extent in flattened order,      *)
(* min(extent.count * block_size, bytes remaining) bytes into the next     *)
(* slice of the buffer; it issues no read after the buffer is full, and if *)
(* all extents are consumed while the buffer is not full it panics instead *)
(* of returning a short or zero-padded buffer.                             *)
C17_ReadFileBytesFillsTheBuffer ==
  res.op = "readFileBytes" =>
    With(flattenExtentTree(device, fs, res.in.extentTree), LAMBDA fl :
      fl.err = NoErr =>
        With(WantReads(fs, fl.extents, 1, res.in.size), LAMBDA want :
        With(SubSeq(res.reads, Len(fl.reads) + 1, Len(res.reads)), LAMBDA got :
          /\ Len(got) <= Len(want)
          /\ \A k \in 1..Len(got) : got[k] = want[k]
          /\ res.err = NoErr
               => (/\ got = want
                   /\ Len(res.data) = res.in.size
                   /\ res.data = BytesOf(device, got, 1))
          /\ res.err # NoErr => res.data = <<>>
          /\ (AllInside(device, want) /\ SumLens(want, 1) < res.in.size)
               => (got = want /\ res.err = ErrPanic))))

----------------------------------------------------------------------------
(* Extent trees as the image stores them *)

(* the tree node stored in a block of the image *)
TrueNode(dev, f, block) == CellAt(dev, f.start + block * f.superblock.blockSize, "extent")

(* the leaf extents below a node, children left to right *)
RECURSIVE TrueLeaves(_, _, _)
RECURSIVE TrueLeavesFrom(_, _, _, _)
TrueLeaves(dev, f, node) ==
  IF node.depth = 0 THEN node.extents ELSE TrueLeavesFrom(dev, f, node.children, 1)

TrueLeavesFrom(dev, f, children, k) ==
  IF k > Len(children) THEN <<>>
  ELSE TrueLeaves(dev, f, TrueNode(dev, f, children[k].eiLeaf))
       \o TrueLeavesFrom(dev, f, children, k + 1)

(* one read of one block per index entry, a node's block before the blocks *)
(* below it                                                                *)
RECURSIVE TrueNodeReads(_, _, _)
RECURSIVE TrueNodeReadsFrom(_, _, _, _)
TrueNodeReads(dev, f, node) ==
  IF node.depth = 0 THEN <<>> ELSE TrueNodeReadsFrom(dev, f, node.children, 1)

TrueNodeReadsFrom(dev, f, children, k) ==
  IF k > Len(children) THEN <<>>
  ELSE <<[off |-> f.start + children[k].eiLeaf * f.superblock.blockSize,
          len |-> f.superblock.blockSize]>>
       \o TrueNodeReads(dev, f, TrueNode(dev, f, children[k].eiLeaf))
       \o TrueNodeReadsFrom(dev, f, children, k + 1)

RECURSIVE TrueWalkFrom(_, _, _, _, _)
TrueWalkFrom(dev, f, node, k, reads) ==
  IF k > Len(node.children) THEN [status |-> "ok", reads |-> reads]
  ELSE
  With(TrueNode(dev, f, node.children[k].eiLeaf), LAMBDA c :
  With(Append(reads, [off |-> f.start + node.children[k].eiLeaf * f.superblock.blockSize,
                      len |-> f.superblock.blockSize]), LAMBDA rs :
    IF ~AllInside(dev, rs) \/ c.kind # "extent" \/ c.magic # extentHeaderSignature
    THEN [status |-> "other", reads |-> rs]
    ELSE IF c.depth # node.depth - 1 THEN [status |-> "depth", reads |-> rs]
    ELSE IF c.depth = 0 THEN TrueWalkFrom(dev, f, node, k + 1, rs)
    ELSE With(TrueWalkFrom(dev, f, c, 1, rs), LAMBDA sub :
           IF sub.status # "ok" THEN sub
           ELSE TrueWalkFrom(dev, f, node, k + 1, sub.reads))))

(* C19: during flattening, a child node whose decoded depth differs from   *)
(* its parent's depth minus 1 makes the whole flatten fail with the        *)
(* corrupt-extent-tree error; no extents are returned (not even those      *)
(* collected from earlier siblings) and no further child block is read.    *)
C19_WrongChildDepthFailsTheFlatten ==
  (/\ res.op = "flattenExtentTree"
   /\ res.tree.depth > 0
   /\ TrueWalkFrom(device, fs, res.tree, 1, <<>>).status = "depth") =>
    /\ res.err = "wrong extent child data"
    /\ res.extents = <<>>
    /\ res.reads = TrueWalkFrom(device, fs, res.tree, 1, <<>>).reads

(* the second of three children has the depth of its parent: the flatten   *)
(* fails after two block reads and the extents of the first are dropped    *)
C19_SecondChildTooDeep ==
  /\ res.op = "flattenExtentTree"
  /\ Len(res.tree.children) = 3
  /\ TrueNode(device, fs, res.tree.children[1].eiLeaf).depth = res.tree.depth - 1
  /\ TrueNode(device, fs, res.tree.children[1].eiLeaf).extents # <<>>
  /\ TrueNode(device, fs, res.tree.children[2].eiLeaf).depth = res.tree.depth
  /\ res.err = "wrong extent child data"
  /\ res.extents = <<>>
  /\ Len(res.reads) = 2

----------------------------------------------------------------------------
(* The cache of flattened extents *)

RECURSIVE FlattensOf(_)
FlattensOf(c) == IF c = 0 THEN 0 ELSE calls[c].flattens + FlattensOf(c - 1)

(* C20: for any interleaving of concurrent getExtents calls on one inode   *)
(* whose flattening succeeds, the extent tree is flattened exactly once,   *)
(* every call returns that same vector, and once the cache is populated it *)
(* is never modified and later calls issue no device read.                 *)
C20_FlattenedOnceUnderTheMutex ==
  /\ [](FlattensOf(NumCallers) <= 1)
  /\ [](\A c \in Callers :
          calls[c].returned > 0 =>
            /\ FlattensOf(NumCallers) = 1
            /\ calls[c].err = NoErr
            /\ file.inode.extents.cached
            /\ calls[c].pc = "idle" =>
                 /\ calls[c].ret = file.inode.extents.list
                 /\ calls[c].ret = TrueLeaves(device, fs, file.inode.extentTree)
                 /\ calls[c].late => calls[c].reads = <<>>)
  /\ [][file.inode.extents.cached => file'.inode.extents = file.inode.extents]_vars

(* two goroutines have both returned the two leaves of a tree of depth 2,  *)
(* one of them having read its three blocks and the other none             *)
C20_TwoCallersOneFlatten ==
  /\ DOMAIN calls = Callers
  /\ \A c \in Callers : calls[c].pc = "idle" /\ calls[c].returned > 0 /\ Len(calls[c].ret) = 2
  /\ \E c \in Callers : Len(calls[c].reads) = 3 /\ ~calls[c].late
  /\ \E c \in Callers : calls[c].reads = <<>> /\ calls[c].flattens = 0

----------------------------------------------------------------------------
(* What the mutex of an inode is held across *)

(* C21: the mutex of the inode is held only for storing the flattened      *)
(* vector: no step that reads the block of an extent-tree child from the   *)
(* device is taken while a goroutine is inside the mutex.                  *)
C21_NoChildReadUnderTheMutex ==
  [][\A c \in Callers :
       (calls'[c].flattens = calls[c].flattens + 1 /\ calls'[c].reads # <<>>)
         => mutex = 0]_vars

----------------------------------------------------------------------------
(* The cursor of the directory parser *)

(* the records of a buffer as stored: where each starts, the length it     *)
(* claims, and whether it is one the parser hands out                      *)
RECURSIVE StoredRecordsFrom(_, _, _)
StoredRecordsFrom(buf, i, withFt) ==
  IF i + 8 > Len(buf) \/ Uint16(buf, i + 4) = 0 THEN <<>>
  ELSE <<[at |-> i,
          length |-> Uint16(buf, i + 4),
          inode |-> Uint32(buf, i),
          type |-> buf[i + 8],
          name |-> Slice(buf, i + 8, i + 8 + buf[i + 7]),
          tombstone |-> withFt /\ buf[i + 8] = tombstoneFileType]>>
       \o StoredRecordsFrom(buf, i + Uint16(buf, i + 4), withFt)

RECURSIVE SumLengths(_, _)
SumLengths(recs, k) ==
  IF k > Len(recs) THEN 0 ELSE recs[k].length + SumLengths(recs, k + 1)

Yielded(r) ==
  r.inode # 0 /\ ~r.tombstone /\ r.name # NameDot /\ r.name # NameDotDot

RECURSIVE YieldedOf(_, _)
YieldedOf(recs, k) ==
  IF k > Len(recs) THEN <<>>
  ELSE (IF Yielded(recs[k]) THEN <<recs[k]>> ELSE <<>>) \o YieldedOf(recs, k + 1)

(* C22: when parseDirEntries succeeds, the cursor has been advanced by the *)
(* full record length of every record - yielded, without inode, tombstone, *)
(* "." or ".." - and ends exactly at the end of the buffer: the record     *)
(* lengths add up to the buffer length and the entries are the yielded     *)
(* records found at those offsets.                                         *)
C22_CursorEndsAtTheEndOfTheBuffer ==
  (res.op = "parseDirEntries" /\ res.err = NoErr) =>
    LET recs == StoredRecordsFrom(res.buf, 0, res.withFt) IN
    /\ res.cursor = Len(res.buf)
    /\ SumLengths(recs, 1) = Len(res.buf)
    /\ Len(res.entries) = Len(YieldedOf(recs, 1))
    /\ \A k \in 1..Len(res.entries) :
         /\ res.entries[k].inode = YieldedOf(recs, 1)[k].inode
         /\ res.entries[k].filename = YieldedOf(recs, 1)[k].name

(* a record of 20 bytes without inode, a tombstone and an entry: the parse *)
(* yields the one entry and ends at byte 44                                *)
C22_HoleTombstoneEntry ==
  /\ res.op = "parseDirEntries"
  /\ res.withFt
  /\ res.buf = DirRec(0, 20, 7, <<>>) \o DirRec(7, 12, tombstoneFileType, <<>>)
               \o DirRec(3, 12, 1, NameF)
  /\ res.err = NoErr
  /\ Len(res.entries) = 1
  /\ res.entries[1].filename = NameF
  /\ res.cursor = 44

----------------------------------------------------------------------------
(* Malformed directory records *)

(* what is wrong with the first record of a buffer that is not well        *)
(* formed: "past" when the length it claims runs past the end of the       *)
(* buffer, "type" when it has an inode and a file-type byte that is        *)
(* neither 0..7 nor the tombstone, "other" for anything else, "none" when  *)
(* every record is well formed                                             *)
RECURSIVE MalformedFrom(_, _, _)
MalformedFrom(buf, i, withFt) ==
  IF i >= Len(buf) THEN "none"
  ELSE IF i + 8 > Len(buf) THEN "other"
  ELSE IF i + Uint16(buf, i + 4) > Len(buf) THEN "past"
  ELSE IF Uint16(buf, i + 4) < minDirEntryLength THEN "other"
  ELSE IF Uint32(buf, i) = 0 THEN MalformedFrom(buf, i + Uint16(buf, i + 4), withFt)
  ELSE IF withFt /\ buf[i + 8] = tombstoneFileType
  THEN MalformedFrom(buf, i + Uint16(buf, i + 4), withFt)
  ELSE IF withFt /\ buf[i + 8] \notin 0..7 THEN "type"
  ELSE IF i + 8 + buf[i + 7] > Len(buf) THEN "other"
  ELSE MalformedFrom(buf, i + Uint16(buf, i + 4), withFt)

(* C23: parseDirEntries returns an error value, and neither panics nor     *)
(* yields an entry, for a record whose length runs past the end of the     *)
(* buffer and, with the file-type feature, for a record with an inode      *)
(* whose file-type byte is neither one of 0..7 nor the tombstone 0xDE.     *)
C23_MalformedRecordsAreErrors ==
  (res.op = "parseDirEntries" /\ MalformedFrom(res.buf, 0, res.withFt) \in {"past", "type"}) =>
    /\ res.err = "failed to parse directory entry"
    /\ res.entries = <<>>

----------------------------------------------------------------------------
(* The checks of the superblock decoder *)

(* C24: superblockFromBytes checks, in this order, that the length is      *)
(* 1024, that the magic is 0xEF53, that the checksum type is 0 or 1 and,   *)
(* with metadata checksums, that CRC-32C over bytes 0..1020 equals the     *)
(* stored checksum; it succeeds for every buffer passing all four and      *)
(* otherwise fails with the error of the first failing check.              *)
C24_SuperblockChecksInOrder ==
  res.op = "superblockFromBytes" =>
    res.err = (IF res.b.len # 1024 THEN "length"
               ELSE IF res.b.cell.magic # 61267 THEN "signature"
               ELSE IF res.b.cell.checksumType \notin {0, 1} THEN "checksum type"
               ELSE IF "metadataChecksums" \in res.b.cell.features
                       /\ res.b.cell.checksumOver1020 # res.b.cell.checksum
               THEN "checksum"
               ELSE NoErr)

----------------------------------------------------------------------------
(* The checksum rule of a group descriptor *)

(* the bytes the rule in force covers *)
Covered(rec, features, group) ==
  IF "metadataChecksums" \in features
  THEN U32LE(group) \o rec.head \o <<0, 0>> \o (IF rec.len = 64 THEN rec.tail ELSE <<>>)
  ELSE <<9>> \o U32LE(group) \o rec.head
       \o (IF "fs64Bit" \in features THEN rec.tail ELSE <<>>)

----------------------------------------------------------------------------
(* Readers do not disturb each other *)

----------------------------------------------------------------------------
(* The flatten ends *)

(* C27: flattenExtentTree terminates whatever the device holds, child      *)
(* pointers that form a cycle or lead back to an ancestor included: the    *)
(* calls in progress never number more than the depth of the root plus the *)
(* call on the root, the device reads never more than the index entries of *)
(* the nodes entered, and every call that is entered returns.              *)
C27_FlattenTerminates ==
  /\ [](res.op = "walk" =>
          /\ Len(res.stack) <= res.root.depth + 1
          /\ Len(res.reads) <= res.entries)
  /\ (res.op = "walk" /\ ~res.done) ~> (res.op = "walk" /\ res.done)

(* block 13 lists itself as its child: the flatten of a root of depth 2    *)
(* has read it twice and ended with an error                               *)
C27_SelfLoopRefused ==
  /\ res.op = "walk"
  /\ res.done
  /\ res.root.depth = 2
  /\ Len(res.reads) = 2
  /\ res.reads[1] = res.reads[2]
  /\ res.err = "wrong extent child data"

----------------------------------------------------------------------------
(* A flatten that fails *)

(* C28: if flattening fails inside getExtents the error is returned with   *)
(* no vector, the cache of the inode stays empty and the mutex is          *)
(* released; the error is not memoised, so every later call on the inode   *)
(* flattens again from the device.                                         *)
C28_ErrorsAreNotMemoised ==
  \A c \in DOMAIN calls :
    (/\ calls[c].pc = "idle"
     /\ calls[c].returned > 0
     /\ flattenExtentTree(device, fs, file.inode.extentTree).err # NoErr) =>
      /\ calls[c].err = flattenExtentTree(device, fs, file.inode.extentTree).err
      /\ calls[c].ret = <<>>
      /\ ~file.inode.extents.cached
      /\ mutex # c
      /\ calls[c].flattens = calls[c].returned
      /\ calls[c].reads = flattenExtentTree(device, fs, file.inode.extentTree).reads

(* a goroutine has called getExtents twice on the inode whose second child *)
(* has the depth of its parent: both calls read two blocks and failed      *)
C28_FailedTwice ==
  /\ DOMAIN calls = Callers
  /\ \E c \in Callers :
       /\ calls[c].pc = "idle"
       /\ calls[c].returned = 2
       /\ calls[c].flattens = 2
       /\ calls[c].err = "wrong extent child data"
       /\ Len(calls[c].reads) = 2
       /\ mutex # c
  /\ ~file.inode.extents.cached

----------------------------------------------------------------------------
(* What counts as a directory *)

(* the type byte of the live record of the root directory with the name,   *)
(* -1 when there is none                                                   *)
RECURSIVE TypeIn(_, _, _)
TypeIn(recs, k, name) ==
  IF k > Len(recs) THEN -1
  ELSE IF Live(recs[k]) /\ recs[k].name = name THEN recs[k].type
  ELSE TypeIn(recs, k + 1, name)

RootTypeOf(name) == TypeIn(TrueRecords(device, fs, 2), 1, name)

(* C29: an entry is treated as a directory exactly when the file type of   *)
(* its directory record is directory (2): ReadDir reports is-dir for it,   *)
(* and OpenFile refuses it as a directory, if and only if it is; regular   *)
(* files, character and block devices, fifos, sockets and symlinks are not *)
(* directories.                                                            *)
C29_OnlyDirectoriesAreDirectories ==
  /\ (res.op = "ReadDir" /\ res.path = <<Slash>> /\ res.err = NoErr) =>
       \A k \in 1..Len(res.infos) :
         res.infos[k].isDir <=> RootTypeOf(res.infos[k].name) = 2
  /\ (res.op = "OpenFile" /\ Len(res.path) = 2 /\ res.path[1] = Slash
      /\ RootTypeOf(Tail(res.path)) >= 0) =>
       (res.err = ErrIsADirectory <=> RootTypeOf(Tail(res.path)) = 2)

----------------------------------------------------------------------------
(* The offset of a File *)

(* C30: after any sequence of Seek and Read calls the offset of a File is  *)
(* >= 0; a Read whose device access succeeds returns                       *)
(* n = min(len(buf), max(0, size - offset)) bytes and advances the offset  *)
(* by exactly n; a failed Seek, and a Read whose device access fails,      *)
(* leave the offset where it was.                                          *)
C30_OffsetFollowsTheReads ==
  /\ file.open => file.offset >= 0
  /\ res.op = "FileRead" =>
       IF res.err \in {NoErr, ErrEOF}
       THEN /\ res.n = Min(res.len, IF file.inode.size - res.before > 0
                                    THEN file.inode.size - res.before ELSE 0)
            /\ Len(res.bytes) = res.n
            /\ file.offset = res.before + res.n
       ELSE /\ res.n = 0
            /\ file.offset = res.before
  /\ (res.op = "FileSeek" /\ res.err # NoErr) => file.offset = res.before

(* on the device that ends inside the block of f: after a Seek to 1 a Read *)
(* fails on the device and the offset is still 1                           *)
C30_FailedReadKeepsTheOffset ==
  /\ res.op = "FileRead"
  /\ res.err \notin {NoErr, ErrEOF}
  /\ res.len > 0
  /\ res.before = 1
  /\ file.offset = 1

============================================================================
